---- MODULE Spec2Model ----
(***************************************************************************)
(* Model of the LED web control backend: the segment-mapping engine and    *)
(* reconciliation paths of DeviceManager (app/utils/device_manager.py) and *)
(* the lock-guarded atomic write path of the inventory store               *)
(* (app/utils/file_helpers.py).                                            *)
(*                                                                         *)
(* Python values are modelled as follows.                                  *)
(*  - a string that the code inspects character by character (a colour)    *)
(*    is a sequence of one-character strings; None and "" are both the     *)
(*    empty sequence, because the code only ever tests them with `not x`.  *)
(*  - an LED count read from the device is an integer, 0 standing for      *)
(*    None, an absent key and 0 alike (the code reads them with `or` and   *)
(*    `not`), or the marker of a dict.                                     *)
(*  - a start/stop/brightness value of the saved document is a record      *)
(*    [k, v]: k is "none", "int", "str" (a numeric string) or "bad"        *)
(*    (a string int() rejects).                                            *)
(***************************************************************************)
EXTENDS Integers, Sequences, FiniteSets, TLC

\* ------------------------------------------------------------------ bounds
MaxSegColors == 2      \* longest saved device_segment_colors list explored
MaxWrites == 2         \* writes of the inventory file started in one run
LockTimeoutPolls == 2  \* polls of the lock file that fit in lock_timeout
MaxZones == 2          \* zones of the documents written and read back
DocChunks == 2         \* pieces in which a document reaches the file
MaxTime == 2           \* ticks of the clock in one run
MaxCreates == 4        \* creation requests in one run

\* ------------------------------------------------------- program constants
DefaultLedCount == 60
DefaultBrightness == 128
Persist == 1

\* ----------------------------------------------------------- Python values
PyNone == [k |-> "none", v |-> 0]
PyInt(n) == [k |-> "int", v |-> n]
PyStr(n) == [k |-> "str", v |-> n]
PyBad == [k |-> "bad", v |-> 0]

NoColor == << >>
Truthy(s) == Len(s) > 0

\* colour strings of the repository's fixture and of the spec's examples
C3dd1db == <<"#", "3", "d", "d", "1", "d", "b">>
Ca52222 == <<"#", "a", "5", "2", "2", "2", "2">>
Cafab2c == <<"#", "a", "f", "a", "b", "2", "c">>
Cffffff == <<"#", "f", "f", "f", "f", "f", "f">>
CnotAColor == <<"n", "o", "t", "-", "a", "-", "c", "o", "l", "o", "r">>
CshortF0A == <<" ", "#", "F", "0", "a", " ">>
Csigned == <<"-", "1", "+", "2", " ", "3">>

HexLower == <<"0", "1", "2", "3", "4", "5", "6", "7", "8", "9", "a", "b", "c", "d", "e", "f">>
HexUpper == <<"0", "1", "2", "3", "4", "5", "6", "7", "8", "9", "A", "B", "C", "D", "E", "F">>

IsHex(c) == \E i \in 1..16 : HexLower[i] = c \/ HexUpper[i] = c
HexVal(c) == (CHOOSE i \in 1..16 : HexLower[i] = c \/ HexUpper[i] = c) - 1
IsSpace(c) == c = " "

\* str.strip(): drop white space at both ends
RECURSIVE LStrip(_)
LStrip(s) == IF s # << >> /\ IsSpace(Head(s)) THEN LStrip(Tail(s)) ELSE s
RECURSIVE RStrip(_)
RStrip(s) == IF s # << >> /\ IsSpace(s[Len(s)]) THEN RStrip(SubSeq(s, 1, Len(s) - 1)) ELSE s
Strip(s) == RStrip(LStrip(s))

\* str.lstrip('#'): drop every leading '#'
RECURSIVE LStripHash(_)
LStripHash(s) == IF s # << >> /\ Head(s) = "#" THEN LStripHash(Tail(s)) ELSE s

\* int(x, 16) of a two-character string: [ok, v]; int() accepts a sign and
\* surrounding white space
Int16(c1, c2) ==
    IF IsHex(c1) /\ IsHex(c2) THEN [ok |-> TRUE, v |-> 16 * HexVal(c1) + HexVal(c2)]
    ELSE IF c1 = "+" /\ IsHex(c2) THEN [ok |-> TRUE, v |-> HexVal(c2)]
    ELSE IF c1 = "-" /\ IsHex(c2) THEN [ok |-> TRUE, v |-> 0 - HexVal(c2)]
    ELSE IF IsSpace(c1) /\ IsHex(c2) THEN [ok |-> TRUE, v |-> HexVal(c2)]
    ELSE IF IsHex(c1) /\ IsSpace(c2) THEN [ok |-> TRUE, v |-> HexVal(c1)]
    ELSE [ok |-> FALSE, v |-> 0]

\* the three int(s[i:i+2], 16) of lines 271-277: << >> when one raises
Channels(r, g, b) == IF r.ok /\ g.ok /\ b.ok THEN <<r.v, g.v, b.v>> ELSE << >>

\* lines 267-275 on the stripped string
RgbOfStripped(s0) ==
    IF Len(s0) = 3
    THEN Channels(Int16(s0[1], s0[1]), Int16(s0[2], s0[2]), Int16(s0[3], s0[3]))
    ELSE IF Len(s0) # 6 THEN << >>
    ELSE Channels(Int16(s0[1], s0[2]), Int16(s0[3], s0[4]), Int16(s0[5], s0[6]))

\* _hex_to_rgb, lines 263-277: <<r, g, b>>, or << >> for None
HexToRgb(hex_str) ==
    IF ~Truthy(hex_str) THEN << >> ELSE RgbOfStripped(LStripHash(Strip(hex_str)))

\* every colour string of the model, and _hex_to_rgb tabulated over them
Colors == {NoColor, C3dd1db, Ca52222, Cafab2c, Cffffff, CnotAColor, CshortF0A, Csigned}
Rgb == [c \in Colors |-> HexToRgb(c)]

\* int(x) of a saved start/stop value: [ok, v]
IntOf(x) ==
    IF x.k \in {"int", "str"} THEN [ok |-> TRUE, v |-> x.v] ELSE [ok |-> FALSE, v |-> 0]

\* ------------------------------------------------ the device's state reply
\* What esp32_client.get_device_state returns for GET /json/state.  fetch is
\* "ok" (a dict), "none" (None: the transport gave up) or "raise".  ledsK is
\* the kind of info['leds']: "none", "int" (ledsV) or "dict" (with count and
\* led_count, ledsEmpty when the dict has no key at all).  segLens are the
\* 'len' values of state_root['seg'] (0: no 'len' key, None or 0); leds and
\* length are the top-level fields of state_root.
NoReply ==
    [fetch |-> "none", ledsK |-> "none", ledsV |-> 0, ledsEmpty |-> TRUE,
     count |-> 0, led_count |-> 0, infoLedCount |-> 0, infoCount |-> 0,
     segLens |-> << >>, leds |-> 0, length |-> 0]
OkReply == [NoReply EXCEPT !.fetch = "ok"]

Or2(a, b) == IF a # 0 THEN a ELSE b

RECURSIVE SumLens(_)
SumLens(lens) == IF lens = << >> THEN 0 ELSE Head(lens) + SumLens(Tail(lens))

DictVal == [k |-> "dict", v |-> 0]
Falsy(t) == t.k = "int" /\ t.v = 0

\* total_leds as lines 283-297 (and 437-448) derive it from the reply
TotalLeds(reply) ==
    LET t1 == IF reply.ledsK = "dict" THEN Or2(reply.count, reply.led_count) ELSE 0
        infoLeds == IF reply.ledsK = "dict" /\ ~reply.ledsEmpty THEN DictVal
                    ELSE IF reply.ledsK = "int" THEN PyInt(reply.ledsV)
                    ELSE PyInt(0)
        t2 == IF t1 # 0 THEN PyInt(t1)
              ELSE IF ~Falsy(infoLeds) THEN infoLeds
              ELSE PyInt(Or2(reply.infoLedCount, reply.infoCount))
        anyLen == \E i \in 1..Len(reply.segLens) : reply.segLens[i] # 0
        t3 == IF Falsy(t2) /\ anyLen THEN PyInt(SumLens(reply.segLens)) ELSE t2
        top == Or2(reply.leds, reply.length)
    IN IF Falsy(t3) THEN (IF top > 0 THEN PyInt(top) ELSE PyInt(0)) ELSE t3

\* `total_leds > 0` raises TypeError when total_leds is a dict
LedCountRaises(total) == total.k = "dict"

\* led_count of lines 308-315 (459-465)
LedCount(total, seg_colors) ==
    LET base == IF total.k = "int" /\ total.v > 0 THEN total.v ELSE DefaultLedCount
    IN IF Len(seg_colors) > base THEN Len(seg_colors) ELSE base

Entry(color, start, stop) == [color |-> color, start |-> PyInt(start), stop |-> PyInt(stop)]

\* the one-LED entries of lines 329-332 (477-480)
RECURSIVE OneLedEntries(_, _, _)
OneLedEntries(seg_colors, idx, led_count) ==
    IF idx >= Len(seg_colors) \/ idx >= led_count THEN << >>
    ELSE <<Entry(seg_colors[idx + 1], idx, idx + 1)>> \o OneLedEntries(seg_colors, idx + 1, led_count)

\* AutoMapping with the trailing range starting one LED late
AutoMappingGap(seg_colors, curr_color, led_count) ==
    LET color_rest == IF Truthy(curr_color) THEN curr_color
                      ELSE IF Len(seg_colors) > 1 /\ Truthy(seg_colors[2]) THEN seg_colors[2]
                      ELSE IF Len(seg_colors) > 0 THEN seg_colors[1] ELSE NoColor
    IN IF seg_colors = << >> /\ Truthy(curr_color)
       THEN <<Entry(color_rest, 0, led_count)>>
       ELSE OneLedEntries(seg_colors, 0, led_count)
            \o (IF led_count > Len(seg_colors) + 1 /\ Truthy(color_rest)
                THEN <<Entry(color_rest, Len(seg_colors) + 1, led_count)>>
                ELSE << >>)

\* AutoMapping falling back to a white strip when nothing is saved
AutoMappingWhite(seg_colors, curr_color, led_count) ==
    LET color_rest == IF Truthy(curr_color) THEN curr_color
                      ELSE IF Len(seg_colors) > 1 /\ Truthy(seg_colors[2]) THEN seg_colors[2]
                      ELSE IF Len(seg_colors) > 0 THEN seg_colors[1] ELSE Cffffff
    IN IF seg_colors = << >>
       THEN <<Entry(color_rest, 0, led_count)>>
       ELSE OneLedEntries(seg_colors, 0, led_count)
            \o (IF led_count > Len(seg_colors)
                THEN <<Entry(color_rest, Len(seg_colors), led_count)>>
                ELSE << >>)

\* the auto-generated seg_mapping of lines 318-335 (468-483)
AutoMapping(seg_colors, curr_color, led_count) ==
    LET color0 == IF Len(seg_colors) > 0 THEN seg_colors[1] ELSE NoColor
        color1 == IF Len(seg_colors) > 1 THEN seg_colors[2] ELSE NoColor
        color_rest == IF Truthy(curr_color) THEN curr_color
                      ELSE IF Truthy(color1) THEN color1 ELSE color0
    IN IF seg_colors = << >> /\ Truthy(curr_color)
       THEN <<Entry(color_rest, 0, led_count)>>
       ELSE OneLedEntries(seg_colors, 0, led_count)
            \o (IF led_count > Len(seg_colors) /\ Truthy(color_rest)
                THEN <<Entry(color_rest, Len(seg_colors), led_count)>>
                ELSE << >>)

\* SegUpdate sending a malformed colour as black instead of dropping the entry
SegUpdateBlack(entry) ==
    LET stop == IntOf(entry.stop)
        start == IntOf(entry.start)
    IN IF ~stop.ok \/ ~start.ok \/ start.v >= stop.v THEN << >>
       ELSE <<[start |-> start.v, stop |-> stop.v,
               col |-> <<IF Rgb[entry.color] = << >> THEN <<0, 0, 0>> ELSE Rgb[entry.color]>>]>>

\* one entry of seg_mapping to at most one element of seg_updates, lines 341-367
\* (486-509)
SegUpdate(entry) ==
    LET rgb == Rgb[entry.color]
        stop == IntOf(entry.stop)
        start == IntOf(entry.start)
    IN IF entry.stop.k = "none" \/ ~stop.ok THEN << >>
       ELSE IF rgb # << >> /\ entry.start.k \in {"int", "str"}
            THEN IF ~start.ok THEN << >>
                 ELSE IF start.v < stop.v
                      THEN <<[start |-> start.v, stop |-> stop.v, col |-> <<rgb>>]>>
                      ELSE << >>
            ELSE << >>

RECURSIVE SegUpdates(_)
SegUpdates(seg_mapping) ==
    IF seg_mapping = << >> THEN << >>
    ELSE SegUpdate(Head(seg_mapping)) \o SegUpdates(Tail(seg_mapping))

\* bri of line 372 (512)
Brightness(dev) ==
    IF dev.device_brightness.k = "int" THEN dev.device_brightness.v ELSE DefaultBrightness

\* a request handed to the transport client
Request(method, keys, on, bri, seg, psave) ==
    [method |-> method, keys |-> keys, on |-> on, bri |-> bri, seg |-> seg, psave |-> psave]
GetState == Request("GET", {}, FALSE, 0, << >>, 0)
PowerCommand(on) == Request("POST", {"on"}, on, 0, << >>, 0)
\* state_data of line 373 (513)
StateData(dev, seg_updates) ==
    Request("POST", {"on", "bri", "seg", "psave"}, TRUE, Brightness(dev), seg_updates, Persist)

\* the reconciliation preferring auto-generated ranges when segment colours are saved
ReconcileAutoWhenColours(dev, total) ==
    LET saved == dev.device_segment_mapping
        auto == saved = << >> \/ dev.device_segment_colors # << >>
        raised == auto /\ LedCountRaises(total)
        led_count == IF auto /\ ~raised THEN LedCount(total, dev.device_segment_colors) ELSE 0
        seg_mapping == IF ~auto THEN saved
                       ELSE IF raised THEN << >>
                       ELSE AutoMapping(dev.device_segment_colors, dev.device_current_color, led_count)
    IN [auto |-> auto, raised |-> raised, led_count |-> led_count,
        seg_mapping |-> seg_mapping,
        seg_updates |-> IF raised THEN << >> ELSE SegUpdates(seg_mapping)]

\* The reconciliation shared by the two handlers from `seg_mapping = dev.get(...)`
\* on (lines 299-367, 453-509): raised is the TypeError of `total_leds > 0`.
Reconcile(dev, total) ==
    LET saved == dev.device_segment_mapping
        auto == saved = << >>
        raised == auto /\ LedCountRaises(total)
        led_count == IF auto /\ ~raised THEN LedCount(total, dev.device_segment_colors) ELSE 0
        seg_mapping == IF ~auto THEN saved
                       ELSE IF raised THEN << >>
                       ELSE AutoMapping(dev.device_segment_colors, dev.device_current_color, led_count)
    IN [auto |-> auto, raised |-> raised, led_count |-> led_count,
        seg_mapping |-> seg_mapping,
        seg_updates |-> IF raised THEN << >> ELSE SegUpdates(seg_mapping)]

\* ------------------------------------------------------ the saved inventory
\* A device of network_devices.json, with the keys the manager reads.
Device(id, ip, curr, segs, mapping, bri) ==
    [device_id |-> id, device_ip |-> ip, device_current_color |-> curr,
     device_segment_colors |-> segs, device_segment_mapping |-> mapping,
     device_brightness |-> bri]

DeviceIp == "10.0.0.140"
NoIp == ""

\* explicit device_segment_mapping values: every entry usable; and one entry of
\* each kind the loop of lines 341-367 tells apart
MappingValid ==
    <<Entry(Cffffff, 0, 10), Entry(C3dd1db, 10, 20)>>
MappingMixed ==
    <<[color |-> CshortF0A, start |-> PyStr(5), stop |-> PyStr(9)],
      [color |-> Cffffff, start |-> PyInt(3), stop |-> PyNone],
      [color |-> CnotAColor, start |-> PyInt(0), stop |-> PyInt(4)],
      [color |-> Ca52222, start |-> PyInt(7), stop |-> PyInt(7)],
      [color |-> Ca52222, start |-> PyNone, stop |-> PyInt(7)],
      [color |-> Cafab2c, start |-> PyInt(2), stop |-> PyBad],
      [color |-> Cafab2c, start |-> PyInt(0), stop |-> PyInt(6)]>>

SegPalette == {C3dd1db, Ca52222, CnotAColor, Cffffff}
SeqsUpTo(S, n) == UNION {[1..k -> S] : k \in 0..n}
SegColorLists == SeqsUpTo(SegPalette, MaxSegColors)
CurrentColors == {NoColor, Cafab2c, CnotAColor, Csigned}
Mappings == {<< >>, MappingValid, MappingMixed}
Brightnesses == {PyNone, PyInt(200)}

\* the saved configurations of the device under control (device_id 1)
Configs ==
    {Device(1, DeviceIp, c, s, m, b) :
        c \in CurrentColors, s \in SegColorLists, m \in Mappings, b \in Brightnesses}

\* a second device, saved without an address; no device has id 3
Unaddressed == Device(2, NoIp, Cafab2c, <<Cffffff>>, << >>, PyNone)
CallIds == {1, 2, 3}

\* the test's device: tests/test_device_manager_segments.py lines 22-31
FixtureDevice == Device(1, DeviceIp, Cafab2c, <<C3dd1db, Ca52222>>, << >>, PyNone)

\* replies of the device to GET /json/state
ReplyLeds300 == [OkReply EXCEPT !.leds = 300]
DeviceReplies ==
    {NoReply,
     [NoReply EXCEPT !.fetch = "raise"],
     OkReply,
     ReplyLeds300,
     [OkReply EXCEPT !.leds = 1],
     [OkReply EXCEPT !.leds = 0 - 5, !.length = 0],
     [OkReply EXCEPT !.length = 2],
     [OkReply EXCEPT !.segLens = <<10, 0, 5>>],
     [OkReply EXCEPT !.ledsK = "dict", !.ledsEmpty = FALSE, !.count = 30],
     [OkReply EXCEPT !.ledsK = "dict", !.ledsEmpty = FALSE, !.count = 0],
     [OkReply EXCEPT !.ledsK = "dict", !.ledsEmpty = TRUE, !.segLens = <<12>>],
     [OkReply EXCEPT !.ledsK = "int", !.ledsV = 8],
     [OkReply EXCEPT !.infoCount = 16]}

\* the index DeviceManager.load_devices builds: device_id -> record, the last
\* record of an id winning (lines 49-66)
RECURSIVE Flatten(_)
Flatten(doc) ==
    IF doc = << >> THEN << >>
    ELSE LET rest == Flatten(SubSeq(doc, 1, Len(doc) - 1))
             last == doc[Len(doc)]
         IN [id \in (DOMAIN rest) \cup {last.device_id} |->
                IF id = last.device_id THEN last ELSE rest[id]]

\* get_device_ip, lines 99-106: NoIp for None
GetDeviceIp(idx, id) == IF id \in DOMAIN idx THEN idx[id].device_ip ELSE NoIp

\* return values
None == "None"
PowerAck == "power-ack"
StateAck == "state-ack"

VARIABLES
    disk,      \* the persisted inventory: the devices of network_devices.json, in document order
    index,     \* DeviceManager.devices_data
    call,      \* the last call of the manager: its arguments, the device's reply, its locals,
               \* and whether the index it found was behind the document (stale)
    sent,      \* the requests that call handed to the transport client, in order
    result,    \* what that call returned
    prev,      \* the call before it, when both are calls of apply_saved_state
    files,     \* the file system's inodes: the content of each
    target,    \* the inode network_devices.json names
    tmp,       \* the inode .network_devices.json.tmp names, 0 if the name is free
    lock,      \* the writer that created .network_devices.json.lock, 0 if there is none
    pc,        \* where each writer is in its write
    polls,     \* the polls of the lock each writer has slept through
    job,       \* each writer's write: [kind, fd, off, err]
    started,   \* the writes started so far
    rfd,       \* the inode the reader has open, 0 if none
    seen,      \* what the reader's last json.load was given
    document,  \* the inventory document a caller hands to save_network_devices
    text,      \* the JSON text that save left in the file, as tokens
    loaded,    \* what load_network_devices returned
    status,    \* the status and last_seen keys of each entry of the index
    now,       \* the clock time.time() reads
    hierarchy, \* the inventory document as the creation routes load and save it
    creates,   \* the creation requests answered so far
    req,      \* the request _make_request is making: its position, attempts, sleeps and return value
    loader,   \* load_devices in progress: its position and its local flat_devices
    reader,   \* get_device_state in progress: its position, its locals and the indexes it has read
    handlers  \* the creation requests being handled: where each is, the document it loaded and changed, its answer


NoDevice == Device(0, NoIp, NoColor, << >>, << >>, PyNone)

\* what load_network_devices returns when there is no file, file_helpers.py line 32
EmptyHierarchy == [zones |-> << >>]
CreateIdle == hierarchy = EmptyHierarchy /\ creates = 0

\* no request is being made
NoRequest ==
    [pc |-> "idle", method |-> "GET", attempt |-> 0, outcomes |-> << >>, sleeps |-> << >>,
     result |-> "pending"]
RequestIdle == req = NoRequest

\* no reload and no read is in progress
NoLoad == [pc |-> "idle", flat_devices |-> << >>]
NoReader == [pc |-> "idle", id |-> 0, state |-> "None", views |-> << >>, raised |-> FALSE]
ReloadIdle == loader = NoLoad /\ reader = NoReader

\* the creation requests handled side by side, and none of them started
Handlers == {1, 2}
NoHandler == [pc |-> "idle", kind |-> "none", hierarchy |-> EmptyHierarchy, name |-> 0, code |-> 0]
HandlersIdle == handlers = [r \in Handlers |-> NoHandler]

\* an entry of the index as load_devices builds it, lines 51-57: a copy of the
\* document's device, which has no status and no last_seen key
\* last_seen of an entry without the key
Never == 0 - 1
NoStatus(idx) == [id \in DOMAIN idx |-> [status |-> "absent", last_seen |-> Never]]
NoCall ==
    [op |-> "none", id |-> 0, on |-> FALSE, reply |-> NoReply, dev |-> NoDevice,
     reconciled |-> FALSE, auto |-> FALSE, led_count |-> 0, seg_mapping |-> << >>,
     power |-> "none", update |-> "none", fetches |-> << >>, served |-> << >>,
     stale |-> FALSE, color |-> << >>]

\* set_device_power with the reconciliation outside its try block: a failure
\* in it reaches the caller instead of the power response
SetDevicePowerUnguarded(id, on, power, reply, update) ==
    LET ip == GetDeviceIp(index, id)
        res == IF power = "ok" THEN PowerAck ELSE None
        dev == index[id]
        rec == Reconcile(dev, TotalLeds(reply))
        fetched == ip # NoIp /\ on /\ res # None
        reconciled == fetched /\ reply.fetch # "raise" /\ ~rec.raised
    IN /\ sent' = IF ip = NoIp THEN << >>
                  ELSE <<PowerCommand(on)>>
                       \o (IF fetched THEN <<GetState>> ELSE << >>)
                       \o (IF reconciled /\ rec.seg_updates # << >>
                           THEN <<StateData(dev, rec.seg_updates)>> ELSE << >>)
       /\ result' = IF ip = NoIp THEN None
                    ELSE IF fetched /\ (~reconciled \/ (rec.seg_updates # << >> /\ update # "ok"))
                         THEN None ELSE res
       /\ call' = [op |-> "power", id |-> id, on |-> on,
                   reply |-> IF fetched THEN reply ELSE NoReply,
                   dev |-> IF fetched THEN dev ELSE NoDevice,
                   reconciled |-> reconciled,
                   auto |-> reconciled /\ rec.auto,
                   led_count |-> IF reconciled THEN rec.led_count ELSE 0,
                   seg_mapping |-> IF reconciled THEN rec.seg_mapping ELSE << >>,
                   power |-> IF ip = NoIp THEN "none" ELSE power,
                   update |-> IF reconciled /\ rec.seg_updates # << >> THEN update ELSE "none",
                   fetches |-> << >>, served |-> << >>, stale |-> FALSE,
                   color |-> << >>]
       /\ UNCHANGED <<disk, index, status>>

\* set_device_power reconciling whether or not the power command was answered
SetDevicePowerUnconditional(id, on, power, reply, update) ==
    LET ip == GetDeviceIp(index, id)
        res == IF power = "ok" THEN PowerAck ELSE None
        dev == index[id]
        rec == Reconcile(dev, TotalLeds(reply))
        fetched == ip # NoIp /\ on
        reconciled == fetched /\ reply.fetch # "raise" /\ ~rec.raised
    IN /\ sent' = IF ip = NoIp THEN << >>
                  ELSE <<PowerCommand(on)>>
                       \o (IF fetched THEN <<GetState>> ELSE << >>)
                       \o (IF reconciled /\ rec.seg_updates # << >>
                           THEN <<StateData(dev, rec.seg_updates)>> ELSE << >>)
       /\ result' = IF ip = NoIp THEN None ELSE res
       /\ call' = [op |-> "power", id |-> id, on |-> on,
                   reply |-> IF fetched THEN reply ELSE NoReply,
                   dev |-> IF fetched THEN dev ELSE NoDevice,
                   reconciled |-> reconciled,
                   auto |-> reconciled /\ rec.auto,
                   led_count |-> IF reconciled THEN rec.led_count ELSE 0,
                   seg_mapping |-> IF reconciled THEN rec.seg_mapping ELSE << >>,
                   power |-> IF ip = NoIp THEN "none" ELSE power,
                   update |-> IF reconciled /\ rec.seg_updates # << >> THEN update ELSE "none",
                   fetches |-> << >>, served |-> << >>, stale |-> FALSE,
                   color |-> << >>]
       /\ UNCHANGED <<disk, index, status>>

\* DeviceManager.set_device_power, lines 230-385.  power is the outcome of
\* esp32_client.set_power, reply the device's answer to the state fetch, update
\* the outcome of esp32_client.set_device_state
SetDevicePower(id, on, power, reply, update) ==
    LET ip == GetDeviceIp(index, id)
        res == IF power = "ok" THEN PowerAck ELSE None
        dev == index[id]
        rec == Reconcile(dev, TotalLeds(reply))
        fetched == ip # NoIp /\ on /\ res # None
        reconciled == fetched /\ reply.fetch # "raise" /\ ~rec.raised
    IN /\ sent' = IF ip = NoIp THEN << >>
                  ELSE <<PowerCommand(on)>>
                       \o (IF fetched THEN <<GetState>> ELSE << >>)
                       \o (IF reconciled /\ rec.seg_updates # << >>
                           THEN <<StateData(dev, rec.seg_updates)>> ELSE << >>)
       /\ result' = IF ip = NoIp THEN None ELSE res
       /\ call' = [op |-> "power", id |-> id, on |-> on,
                   reply |-> IF fetched THEN reply ELSE NoReply,
                   dev |-> IF fetched THEN dev ELSE NoDevice,
                   reconciled |-> reconciled,
                   auto |-> reconciled /\ rec.auto,
                   led_count |-> IF reconciled THEN rec.led_count ELSE 0,
                   seg_mapping |-> IF reconciled THEN rec.seg_mapping ELSE << >>,
                   power |-> IF ip = NoIp THEN "none" ELSE power,
                   update |-> IF reconciled /\ rec.seg_updates # << >> THEN update ELSE "none",
                   fetches |-> << >>, served |-> << >>, stale |-> FALSE,
                   color |-> << >>]
       /\ UNCHANGED <<disk, index, status>>

\* apply_saved_state computing from the index as it stands and reloading it last
ApplySavedStateLateReload(id, reply, update) ==
    LET ip == GetDeviceIp(index, id)
        dev == index[id]
        total == IF reply.fetch = "raise" THEN PyInt(0) ELSE TotalLeds(reply)
        rec == Reconcile(dev, total)
        reconciled == ip # NoIp /\ ~rec.raised
        sends == reconciled /\ rec.seg_updates # << >>
    IN /\ index' = Flatten(disk)
       /\ status' = NoStatus(Flatten(disk))
       /\ sent' = IF ip = NoIp THEN << >>
                  ELSE <<GetState>>
                       \o (IF sends THEN <<StateData(dev, rec.seg_updates)>> ELSE << >>)
       /\ result' = IF sends /\ update = "ok" THEN StateAck ELSE None
       /\ call' = [op |-> "apply", id |-> id, on |-> FALSE,
                   reply |-> IF ip # NoIp THEN reply ELSE NoReply,
                   dev |-> IF ip # NoIp THEN dev ELSE NoDevice,
                   reconciled |-> reconciled,
                   auto |-> reconciled /\ rec.auto,
                   led_count |-> IF reconciled THEN rec.led_count ELSE 0,
                   seg_mapping |-> IF reconciled THEN rec.seg_mapping ELSE << >>,
                   power |-> "none",
                   update |-> IF sends THEN update ELSE "none",
                   fetches |-> << >>, served |-> << >>,
                   stale |-> index # Flatten(disk), color |-> << >>]
       /\ UNCHANGED disk

\* DeviceManager.apply_saved_state, lines 387-527
ApplySavedState(id, reply, update) ==
    LET idx == Flatten(disk)
        ip == GetDeviceIp(idx, id)
        dev == idx[id]
        total == IF reply.fetch = "raise" THEN PyInt(0) ELSE TotalLeds(reply)
        rec == Reconcile(dev, total)
        reconciled == ip # NoIp /\ ~rec.raised
        sends == reconciled /\ rec.seg_updates # << >>
    IN /\ index' = idx
       /\ status' = NoStatus(idx)
       /\ sent' = IF ip = NoIp THEN << >>
                  ELSE <<GetState>>
                       \o (IF sends THEN <<StateData(dev, rec.seg_updates)>> ELSE << >>)
       /\ result' = IF sends /\ update = "ok" THEN StateAck ELSE None
       /\ call' = [op |-> "apply", id |-> id, on |-> FALSE,
                   reply |-> IF ip # NoIp THEN reply ELSE NoReply,
                   dev |-> IF ip # NoIp THEN dev ELSE NoDevice,
                   reconciled |-> reconciled,
                   auto |-> reconciled /\ rec.auto,
                   led_count |-> IF reconciled THEN rec.led_count ELSE 0,
                   seg_mapping |-> IF reconciled THEN rec.seg_mapping ELSE << >>,
                   power |-> "none",
                   update |-> IF sends THEN update ELSE "none",
                   fetches |-> << >>, served |-> << >>,
                   stale |-> index # Flatten(disk), color |-> << >>]
       /\ UNCHANGED disk

Outcomes == {"ok", "none"}
UpdateOutcomes == {"ok", "none", "raise"}

\* the requests of a call that carry segments
UpdatesOf(requests) == SelectSeq(requests, LAMBDA r : r.method = "POST" /\ "seg" \in r.keys)

NoPrev == [valid |-> FALSE, id |-> 0, reply |-> NoReply, updates |-> << >>]

\* The inputs a call does not read are not enumerated: no outcome of the
\* transport when the device has no address, no reply when no fetch is made.
PowerCalls(replies) ==
    \E id \in CallIds, on \in BOOLEAN :
        IF GetDeviceIp(index, id) = NoIp
        THEN SetDevicePower(id, on, "none", NoReply, "none")
        ELSE \E power \in Outcomes :
                IF on /\ power = "ok"
                THEN \E reply \in replies, update \in UpdateOutcomes :
                        SetDevicePower(id, on, power, reply, update)
                ELSE SetDevicePower(id, on, power, NoReply, "none")

ApplyCalls(replies) ==
    \E id \in CallIds :
        IF GetDeviceIp(Flatten(disk), id) = NoIp
        THEN ApplySavedState(id, NoReply, "none")
        ELSE \E reply \in replies, update \in UpdateOutcomes :
                ApplySavedState(id, reply, update)

mgrAll == <<disk, index, call, sent, result, prev>>
storeVars == <<files, target, tmp, lock, pc, polls, job, started, rfd, seen>>
codecVars == <<document, text, loaded>>
statusVars == <<status, now>>
createVars == <<hierarchy, creates>>
clientVars == <<req>>
reloadVars == <<loader, reader>>
raceVars == <<handlers>>
besidesMgr == <<storeVars, codecVars, now, createVars, clientVars, reloadVars, raceVars>>
besidesStore == <<mgrAll, codecVars, statusVars, createVars, clientVars, reloadVars, raceVars>>
besidesCodec == <<mgrAll, storeVars, statusVars, createVars, clientVars, reloadVars, raceVars>>
vars == <<disk, index, call, sent, result, prev,
          files, target, tmp, lock, pc, polls, job, started, rfd, seen,
          document, text, loaded, status, now, hierarchy, creates,
          req,
          loader, reader,
          handlers>>

\* ------------------------------------------------ the inventory file store
Writers == {1, 2}
\* a file's content is the sequence of the pieces written to it; a piece is
\* named by the document it belongs to: 0 the document on disk at the start,
\* w the document writer w persists, Hole the zeros below a write past the end
Hole == 0 - 1
Documents == {0} \cup Writers
Freed == <<0 - 2>>
WholeDocument(d) == [i \in 1..DocChunks |-> d]
Complete(c) == \E d \in Documents : c = WholeDocument(d)
NotRead == [read |-> FALSE, data |-> << >>]
NoJob == [kind |-> "none", fd |-> 0, off |-> 0, err |-> "none"]

InitStore ==
    /\ files = <<WholeDocument(0)>>
    /\ target = 1
    /\ tmp = 0
    /\ lock = 0
    /\ pc = [w \in Writers |-> "idle"]
    /\ polls = [w \in Writers |-> 0]
    /\ job = [w \in Writers |-> NoJob]
    /\ started = 0
    /\ rfd = 0
    /\ seen = NotRead

\* ------------------------------------------------ the document as JSON text
\* A JSON value: null, an integer, a string (its characters), a list (its
\* items) or an object (its members, in insertion order).
JNull == [t |-> "null", n |-> 0, s |-> << >>, items |-> << >>]
JInt(n) == [t |-> "int", n |-> n, s |-> << >>, items |-> << >>]
JStr(s) == [t |-> "str", n |-> 0, s |-> s, items |-> << >>]
JList(items) == [t |-> "list", n |-> 0, s |-> << >>, items |-> items]
JDict(members) == [t |-> "dict", n |-> 0, s |-> << >>, items |-> members]
Member(k, v) == [k |-> k, v |-> v]

\* a token of the text: punctuation, a string literal (its characters as they
\* stand in the file, between the quotes), a number, null, or the newline and
\* indentation indent=4 puts between items
Tok(t, s, n) == [t |-> t, s |-> s, n |-> n]
Punct(c) == Tok("p", <<c>>, 0)
Indent(depth) == Tok("ws", << >>, 4 * depth)

\* a character outside ASCII (e with acute accent), and its code point
EAcute == "U+00E9"
CodePoint(c) == <<"0", "0", "e", "9">>
Quote == "\""
Backslash == "\\"

\* a string literal with the non-ASCII characters left out
RECURSIVE EscapeAsciiOnly(_)
EscapeAsciiOnly(s) ==
    IF s = << >> THEN << >>
    ELSE (IF Head(s) = EAcute THEN << >> ELSE <<Head(s)>>) \o EscapeAsciiOnly(Tail(s))

\* the body of a string literal as json.dump writes it, ensure_ascii on
RECURSIVE Escape(_)
Escape(s) ==
    IF s = << >> THEN << >>
    ELSE LET c == Head(s)
         IN (IF c = Quote THEN <<Backslash, Quote>>
             ELSE IF c = Backslash THEN <<Backslash, Backslash>>
             ELSE IF c = EAcute THEN <<Backslash, "u">> \o CodePoint(c)
             ELSE <<c>>) \o Escape(Tail(s))

\* the string json.load makes of the body of a string literal
RECURSIVE Unescape(_)
Unescape(s) ==
    IF s = << >> THEN << >>
    ELSE IF Head(s) = Backslash /\ Len(s) >= 2
         THEN IF s[2] = "u" /\ Len(s) >= 6
              THEN (IF SubSeq(s, 3, 6) = CodePoint(EAcute) THEN <<EAcute>> ELSE <<"?">>)
                   \o Unescape(SubSeq(s, 7, Len(s)))
              ELSE <<s[2]>> \o Unescape(SubSeq(s, 3, Len(s)))
         ELSE <<Head(s)>> \o Unescape(Tail(s))

\* json.dump(data, f, indent=4), file_helpers.py line 310
RECURSIVE Dump(_, _)
RECURSIVE DumpItems(_, _, _)
DumpItems(items, isDict, depth) ==
    IF items = << >> THEN << >>
    ELSE <<Indent(depth)>>
         \o (IF isDict
             THEN <<Tok("str", Escape(Head(items).k), 0), Punct(":")>> \o Dump(Head(items).v, depth)
             ELSE Dump(Head(items), depth))
         \o (IF Len(items) > 1 THEN <<Punct(",")>> ELSE << >>)
         \o DumpItems(Tail(items), isDict, depth)
Dump(v, depth) ==
    IF v.t = "null" THEN <<Tok("null", << >>, 0)>>
    ELSE IF v.t = "int" THEN <<Tok("num", << >>, v.n)>>
    ELSE IF v.t = "str" THEN <<Tok("str", Escape(v.s), 0)>>
    ELSE LET open == IF v.t = "dict" THEN "{" ELSE "["
             close == IF v.t = "dict" THEN "}" ELSE "]"
         IN IF v.items = << >> THEN <<Punct(open), Punct(close)>>
            ELSE <<Punct(open)>> \o DumpItems(v.items, v.t = "dict", depth + 1)
                 \o <<Indent(depth), Punct(close)>>

\* json.load(f), file_helpers.py line 31.  Whitespace between tokens is
\* skipped; a container runs from its opening bracket to the bracket that
\* closes it, its items are the values one level inside it, in order
IsPunct(toks, i, c) == i \in 1..Len(toks) /\ toks[i].t = "p" /\ toks[i].s = <<c>>
Opens(toks, i) == IsPunct(toks, i, "{") \/ IsPunct(toks, i, "[")
Closes(toks, i) == IsPunct(toks, i, "}") \/ IsPunct(toks, i, "]")
SkipWs(toks) == SelectSeq(toks, LAMBDA t : t.t # "ws")
\* lev[k] is the number of containers open after token k
Levels(toks) ==
    LET opens == {j \in 1..Len(toks) : Opens(toks, j)}
        closes == {j \in 1..Len(toks) : Closes(toks, j)}
    IN SubSeq([k \in 1..Len(toks) |->
                  Cardinality({j \in opens : j <= k}) - Cardinality({j \in closes : j <= k})],
              1, Len(toks))
\* the one element of a singleton
Only(S) == CHOOSE x \in S : TRUE
\* the places of the values directly inside the container opened at i
ItemsAt(toks, lev, i) ==
    LET closed == {k \in (i + 1)..Len(toks) : lev[k] = lev[i] - 1}
        last == CHOOSE k \in closed : \A j \in closed : k <= j
        at == {k \in (i + 1)..(last - 1) :
                  /\ lev[k - 1] = lev[i]
                  /\ ~IsPunct(toks, k, ",") /\ ~IsPunct(toks, k, ":")
                  /\ IsPunct(toks, i, "{") => IsPunct(toks, k - 1, ":")}
    IN [n \in 1..Cardinality(at) |->
            CHOOSE k \in at : Cardinality({j \in at : j < k}) = n - 1]
RECURSIVE ParseAt(_, _, _)
ParseAt(toks, lev, i) ==
    IF toks[i].t = "null" THEN JNull
    ELSE IF toks[i].t = "num" THEN JInt(toks[i].n)
    ELSE IF toks[i].t = "str" THEN JStr(Unescape(toks[i].s))
    ELSE Only({IF IsPunct(toks, i, "{")
               THEN JDict([n \in 1..Len(at) |->
                              Member(Unescape(toks[at[n] - 2].s), ParseAt(toks, lev, at[n]))])
               ELSE JList([n \in 1..Len(at) |-> ParseAt(toks, lev, at[n])]) :
               at \in {ItemsAt(toks, lev, i)}})
Parse(s) ==
    Only({Only({ParseAt(toks, lev, 1) : lev \in {Levels(toks)}}) : toks \in {SkipWs(s)}})

\* the names of a document
NamePlain == <<"H", "a", "l", "l">>
NameAccented == <<"C", "a", "f", EAcute, " ", Quote, "A", Quote, Backslash>>
ZoneNames == {NamePlain, NameAccented}

\* the devices, locations, groups and zones of a document as the routes
\* build them
DeviceJson(id, ip, curr, segs) ==
    JDict(<<Member(<<"device_id">>, JInt(id)),
            Member(<<"device_ip">>, IF ip = << >> THEN JNull ELSE JStr(ip)),
            Member(<<"device_current_color">>, IF curr = << >> THEN JNull ELSE JStr(curr)),
            Member(<<"device_segment_colors">>, JList([i \in 1..Len(segs) |-> JStr(segs[i])]))>>)
DeviceA == DeviceJson(1, <<"1", "0", ".", "0", ".", "0", ".", "1", "4", "0">>, Cafab2c, <<C3dd1db, Ca52222>>)
DeviceB == DeviceJson(2, << >>, << >>, << >>)
DeviceLists == {<< >>, <<DeviceA>>, <<DeviceA, DeviceB>>, <<DeviceB, DeviceA>>}
GroupJson(id, devices) ==
    JDict(<<Member(<<"group_id">>, JInt(id)),
            Member(<<"location">>,
                   JList(<<JDict(<<Member(<<"location_id">>, JInt(1)),
                                   Member(<<"device">>, JList(devices))>>)>>))>>)
GroupLists == {<< >>} \cup {<<GroupJson(1, ds)>> : ds \in DeviceLists}
ZoneJson(id, name, groups) ==
    JDict(<<Member(<<"zone_id">>, JInt(id)),
            Member(<<"zone_name">>, JStr(name)),
            Member(<<"groups">>, JList(groups))>>)
ZoneChoices == {[name |-> nm, groups |-> gs] : nm \in ZoneNames, gs \in GroupLists}
DocumentJson(zones) ==
    JDict(<<Member(<<"zones">>,
                   JList([i \in 1..Len(zones) |-> ZoneJson(i, zones[i].name, zones[i].groups)]))>>)
InventoryDocuments == {DocumentJson(zs) : zs \in SeqsUpTo(ZoneChoices, MaxZones)}
EmptyDocument == JDict(<<Member(<<"zones">>, JList(<< >>))>>)

NoText == << >>
NotLoaded == [read |-> FALSE, saved |-> FALSE, v |-> JNull]

CodecIdle ==
    /\ document = JNull
    /\ text = NoText
    /\ loaded = NotLoaded

\* save_network_devices(document), file_helpers.py lines 34-36, with no other writer
SaveNetworkDevices ==
    /\ text = NoText
    /\ text' = Dump(document, 0)
    /\ UNCHANGED <<document, loaded>>

\* load_network_devices(), file_helpers.py lines 27-32
LoadNetworkDevices ==
    /\ loaded' = [read |-> TRUE, saved |-> text # NoText,
                  v |-> IF text = NoText THEN EmptyDocument ELSE Parse(text)]
    /\ UNCHANGED <<document, text>>

InitCodec ==
    /\ disk = <<FixtureDevice, Unaddressed>>
    /\ index = Flatten(disk)
    /\ call = NoCall
    /\ sent = << >>
    /\ result = None
    /\ prev = NoPrev
    /\ status = NoStatus(index)
    /\ now = 0
    /\ CreateIdle
    /\ HandlersIdle
    /\ ReloadIdle
    /\ RequestIdle
    /\ InitStore
    /\ document \in InventoryDocuments
    /\ text = NoText
    /\ loaded = NotLoaded

NextCodec ==
    \/ SaveNetworkDevices /\ UNCHANGED besidesCodec
    \/ LoadNetworkDevices /\ UNCHANGED besidesCodec

SpecCodec == InitCodec /\ [][NextCodec]_vars

\* ---------------------------------------------- the engine, over every saved
\* configuration: the manager is constructed on a document and called once;
\* sequences of calls and edits of the document are SpecMgr's
InitEngine ==
    /\ disk \in {<<c, Unaddressed>> : c \in Configs}
    /\ index = Flatten(disk)
    /\ call = NoCall
    /\ sent = << >>
    /\ result = None
    /\ prev = NoPrev
    /\ status = NoStatus(index)
    /\ now = 0
    /\ CreateIdle
    /\ HandlersIdle
    /\ ReloadIdle
    /\ RequestIdle
    /\ InitStore
    /\ CodecIdle

EnginePower ==
    call = NoCall /\ PowerCalls(DeviceReplies) /\ UNCHANGED prev /\ UNCHANGED besidesMgr
EngineApply ==
    call = NoCall /\ ApplyCalls(DeviceReplies) /\ UNCHANGED prev /\ UNCHANGED besidesMgr

NextEngine == EnginePower \/ EngineApply

SpecEngine == InitEngine /\ [][NextEngine]_vars

\* ------------------------------------------- the manager's status keeping:
\* state reads, the bulk poll, power and saved-state calls on an inventory of
\* two addressed devices and one without an address, while the clock runs
OtherIp == "10.0.0.141"
Sibling(ip) == Device(4, ip, Cafab2c, << >>, << >>, PyNone)
StatusIds == CallIds \cup {4}

\* what esp32_client.get_device_state returns, esp32_client.py lines 87-98: a
\* state with keys, a state without any, or None after a failed request
FetchOutcomes == {"state", "empty", "none"}
Value(outcome) == IF outcome = "none" THEN None ELSE outcome
\* `if state:`
StateTruthy(v) == v = "state"

\* lines 144-150 and 178-185: the entry of one device after its fetch
Seen(entry, v, t) ==
    IF StateTruthy(v) THEN [status |-> "online", last_seen |-> t]
    ELSE [entry EXCEPT !.status = "offline"]

\* DeviceManager.get_device_state, lines 121-151
GetDeviceState(id, outcome) ==
    LET ip == GetDeviceIp(index, id)
        state == Value(outcome)
    IN /\ sent' = IF ip = NoIp THEN << >> ELSE <<GetState>>
       /\ result' = IF ip = NoIp THEN None ELSE state
       /\ status' = IF ip = NoIp THEN status
                    ELSE [status EXCEPT ![id] = Seen(@, state, now)]
       /\ call' = [NoCall EXCEPT !.op = "state", !.id = id,
                                 !.fetches = IF ip = NoIp THEN << >> ELSE (id :> outcome)]
       /\ UNCHANGED <<disk, index>>

\* DeviceManager.get_all_device_ips, lines 108-119
GetAllDeviceIps(idx) ==
    [id \in {i \in DOMAIN idx : idx[i].device_ip # NoIp} |-> idx[id].device_ip]

\* get_multiple_device_states, esp32_client.py lines 194-223: one fetch per
\* entry of the list, results keyed by address; served[id] is the device whose
\* fetch was the last to complete among the fetches to id's address
ServedBy(ips) ==
    {f \in [DOMAIN ips -> DOMAIN ips] :
        \A a, b \in DOMAIN ips : /\ ips[f[a]] = ips[a]
                                 /\ ips[a] = ips[b] => f[a] = f[b]}

\* DeviceManager.get_all_device_states, lines 153-187
GetAllDeviceStates(outcome, served) ==
    LET ips == GetAllDeviceIps(index)
        state == [id \in DOMAIN ips |-> Value(outcome[served[id]])]
    IN /\ sent' = [i \in 1..Cardinality(DOMAIN ips) |-> GetState]
       /\ result' = state
       /\ status' = [id \in DOMAIN status |->
                        IF id \in DOMAIN ips THEN Seen(status[id], state[id], now)
                        ELSE status[id]]
       /\ call' = [NoCall EXCEPT !.op = "all", !.fetches = outcome, !.served = served]
       /\ UNCHANGED <<disk, index>>

\* the response of GET /api/devices/<id>/state (api/devices.py lines 453-484)
\* and of POST /api/devices/<id>/power (lines 217-243) to the manager's result
DeviceNotFound == "device_not_found"
Response(c, res, idx) ==
    IF c.op = "state"
    THEN [code |-> 200, error_type |-> "none",
          message |-> IF res = None THEN "minimal" ELSE "state"]
    ELSE IF GetDeviceIp(idx, c.id) = NoIp \/ res = None
         THEN [code |-> 404, error_type |-> "none",
               message |-> "Device not found or unreachable"]
         ELSE [code |-> 200, error_type |-> "none", message |-> "result"]

\* the state route answering 404 when the manager returns None
StateRouteNotFound(id, res, idx, st) ==
    IF res = None
    THEN [code |-> 404, status |-> "error", minimal |-> FALSE,
          on |-> FALSE, bri |-> PyNone, device_current_color |-> NoColor,
          device_segment_colors |-> << >>, device_ip |-> NoIp, device_status |-> "none"]
    ELSE [code |-> 200, status |-> "success", minimal |-> FALSE,
          on |-> FALSE, bri |-> PyNone, device_current_color |-> NoColor,
          device_segment_colors |-> << >>, device_ip |-> NoIp, device_status |-> "none"]

\* GET /api/devices/<id>/state, api/devices.py lines 453-484, after the
\* manager's get_device_state returned res: the code, the 'status' of the body
\* and, when the state is the minimal one built from devices_data, its keys
\* (for a state the device sent, minimal is FALSE and the keys are not modelled)
StateRoute(id, res, idx, st) ==
    IF res = None
    THEN LET known == id \in DOMAIN idx
         IN [code |-> 200, status |-> "success", minimal |-> TRUE,
             on |-> FALSE,
             bri |-> IF known /\ idx[id].device_brightness # PyNone
                     THEN idx[id].device_brightness ELSE PyInt(DefaultBrightness),
             device_current_color |-> IF known THEN idx[id].device_current_color ELSE NoColor,
             device_segment_colors |-> IF known THEN idx[id].device_segment_colors ELSE << >>,
             device_ip |-> IF known THEN idx[id].device_ip ELSE NoIp,
             device_status |-> IF known /\ st[id].status # "absent"
                               THEN st[id].status ELSE "offline"]
    ELSE [code |-> 200, status |-> "success", minimal |-> FALSE,
          on |-> FALSE, bri |-> PyNone, device_current_color |-> NoColor,
          device_segment_colors |-> << >>, device_ip |-> NoIp, device_status |-> "none"]

\* POST /api/devices/<id>/color, api/devices.py lines 272-301, with a body
\* that has r, g, b and w.  The route calls device_manager.set_device_color,
\* a method DeviceManager does not have: the attribute lookup raises
\* AttributeError before any request is made, and the route's except answers
AttributeError == "AttributeError"
InRange(color) == \A i \in 1..Len(color) : 0 <= color[i] /\ color[i] <= 255
SetDeviceColor(id, color) ==
    /\ sent' = << >>
    /\ result' = IF InRange(color) THEN AttributeError ELSE None
    /\ call' = [NoCall EXCEPT !.op = "color", !.id = id, !.color = color]
    /\ UNCHANGED <<disk, index, status>>
\* the code the colour route answers with
ColorRoute(color, res) ==
    IF ~InRange(color) THEN 400
    ELSE IF res = AttributeError THEN 500
    ELSE IF res = None THEN 404 ELSE 200
\* [r, g, b, w] of the requests
ColorArgs == {<<255, 0, 0, 0>>, <<256, 0, 0, 0>>}

StatusReplies == {NoReply, ReplyLeds300}

InitStatus ==
    /\ disk \in {<<FixtureDevice, Unaddressed, Sibling(ip)>> : ip \in {DeviceIp, OtherIp}}
    /\ index = Flatten(disk)
    /\ call = NoCall
    /\ sent = << >>
    /\ result = None
    /\ prev = NoPrev
    /\ status = NoStatus(index)
    /\ now = 0
    /\ CreateIdle
    /\ HandlersIdle
    /\ ReloadIdle
    /\ RequestIdle
    /\ InitStore
    /\ CodecIdle

Tick == now < MaxTime /\ now' = now + 1 /\ UNCHANGED <<mgrAll, status, storeVars, codecVars, createVars, clientVars, reloadVars, raceVars>>
StatusGetState ==
    /\ \E id \in StatusIds :
          IF GetDeviceIp(index, id) = NoIp THEN GetDeviceState(id, "none")
          ELSE \E outcome \in FetchOutcomes : GetDeviceState(id, outcome)
    /\ UNCHANGED prev /\ UNCHANGED besidesMgr
StatusGetAll ==
    /\ \E outcome \in [DOMAIN GetAllDeviceIps(index) -> FetchOutcomes],
          served \in ServedBy(GetAllDeviceIps(index)) : GetAllDeviceStates(outcome, served)
    /\ UNCHANGED prev /\ UNCHANGED besidesMgr
StatusPower == PowerCalls(StatusReplies) /\ UNCHANGED prev /\ UNCHANGED besidesMgr
StatusApply == ApplyCalls(StatusReplies) /\ UNCHANGED prev /\ UNCHANGED besidesMgr
StatusColor ==
    /\ \E id \in StatusIds, color \in ColorArgs : SetDeviceColor(id, color)
    /\ UNCHANGED prev /\ UNCHANGED besidesMgr

NextStatus ==
    Tick \/ StatusGetState \/ StatusGetAll \/ StatusPower \/ StatusApply \/ StatusColor

SpecStatus == InitStatus /\ [][NextStatus]_vars

\* ------------------------------------------- the manager under edits of the
\* inventory: calls in sequence, the document rewritten between them
Given(v) == [given |-> TRUE, v |-> v]
Absent == [given |-> FALSE, v |-> << >>]

\* the update of one device by update_device_network, api/devices.py lines 528-565
NetworkUpdate(d, ip, curr, segs) ==
    LET d1 == IF ip.given THEN [d EXCEPT !.device_ip = ip.v] ELSE d
        segs_list == IF segs.given THEN segs.v ELSE << >>
        two == Len(segs_list) >= 2 /\ segs_list[1] # segs_list[2]
        d2 == IF curr.given THEN [d1 EXCEPT !.device_current_color = curr.v]
              ELSE IF ~two /\ Len(segs_list) = 1
                   THEN [d1 EXCEPT !.device_current_color = segs_list[1]]
                   ELSE d1
    IN IF segs_list # << >> THEN [d2 EXCEPT !.device_segment_colors = segs_list] ELSE d2

\* the first device of the document with the id, 0 if none (lines 521-525)
FirstWithId(doc, id) ==
    IF \E i \in 1..Len(doc) : doc[i].device_id = id
    THEN CHOOSE i \in 1..Len(doc) :
            /\ doc[i].device_id = id
            /\ \A j \in 1..(i - 1) : doc[j].device_id # id
    ELSE 0

EditCall == [NoCall EXCEPT !.op = "edit"]

\* POST /api/devices/<id>/network, api/devices.py lines 505-582: the document
\* is rewritten and the manager's index reloaded; an unknown id changes nothing
UpdateDeviceNetwork(id, ip, curr, segs) ==
    LET i == FirstWithId(disk, id)
        doc == [disk EXCEPT ![i] = NetworkUpdate(disk[i], ip, curr, segs)]
    IN /\ i # 0
       /\ disk' = doc
       /\ index' = Flatten(doc)
       /\ status' = NoStatus(Flatten(doc))
       /\ call' = EditCall /\ sent' = << >> /\ result' = None

\* documents a client puts through /api/hierarchy
MappedDevice == Device(1, DeviceIp, Cafab2c, <<C3dd1db, Ca52222>>, MappingValid, PyInt(200))
PutDocuments ==
    {<<FixtureDevice, Unaddressed>>,
     <<MappedDevice>>,
     <<Device(1, DeviceIp, NoColor, << >>, << >>, PyNone), Unaddressed>>,
     << >>}

\* PUT /api/hierarchy, app/__init__.py lines 363-401: the document is written;
\* the manager's index is not reloaded
HierarchyPut(doc) ==
    /\ disk' = doc
    /\ call' = EditCall /\ sent' = << >> /\ result' = None
    /\ UNCHANGED <<index, status>>

MgrReplies == {NoReply, ReplyLeds300, [OkReply EXCEPT !.leds = 1]}

InitMgr ==
    /\ disk = <<FixtureDevice, Unaddressed>>
    /\ index = Flatten(disk)
    /\ call = NoCall
    /\ sent = << >>
    /\ result = None
    /\ prev = NoPrev
    /\ status = NoStatus(index)
    /\ now = 0
    /\ CreateIdle
    /\ HandlersIdle
    /\ ReloadIdle
    /\ RequestIdle
    /\ InitStore
    /\ CodecIdle

MgrPower == PowerCalls(MgrReplies) /\ prev' = NoPrev /\ UNCHANGED besidesMgr

\* prev is the call before, when that was an apply_saved_state too
MgrApply ==
    /\ ApplyCalls(MgrReplies)
    /\ prev' = IF call.op = "apply"
               THEN [valid |-> TRUE, id |-> call.id, reply |-> call.reply,
                     updates |-> UpdatesOf(sent)]
               ELSE NoPrev
    /\ UNCHANGED besidesMgr

MgrNetworkUpdate ==
    /\ \E id \in CallIds, curr \in {Absent, Given(NoColor)},
          segs \in {Absent, Given(<<Cffffff>>), Given(<<CnotAColor, Cffffff>>)} :
          UpdateDeviceNetwork(id, Absent, curr, segs)
    /\ prev' = NoPrev
    /\ UNCHANGED besidesMgr

MgrHierarchyPut ==
    /\ \E doc \in PutDocuments : HierarchyPut(doc)
    /\ prev' = NoPrev
    /\ UNCHANGED besidesMgr

NextMgr == MgrPower \/ MgrApply \/ MgrNetworkUpdate \/ MgrHierarchyPut

SpecMgr == InitMgr /\ [][NextMgr]_vars

\* ------------------------------------------------ the writers and the reader
\* the inodes some name or open descriptor still refers to; the others are freed
Referenced(tg, tp, rd, jb) == {tg, tp, rd} \cup {jb[w].fd : w \in Writers}
Gc(fs, tg, tp, rd, jb) ==
    [i \in DOMAIN fs |-> IF i \in Referenced(tg, tp, rd, jb) THEN fs[i] ELSE Freed]
\* the inode a newly created file gets
NewInode(fs, refs) ==
    IF \E i \in DOMAIN fs : i \notin refs
    THEN CHOOSE i \in DOMAIN fs : i \notin refs /\ \A j \in DOMAIN fs : j \notin refs => i <= j
    ELSE Len(fs) + 1
Store(fs, i, c) == IF i \in DOMAIN fs THEN [fs EXCEPT ![i] = c] ELSE Append(fs, c)
\* a piece written at the descriptor's offset
WriteAt(c, off, d) ==
    IF off < Len(c)
    THEN [c EXCEPT ![off + 1] = d]
    ELSE c \o [i \in 1..(off - Len(c)) |-> Hole] \o <<d>>

WriteKinds == {"atomic", "inplace"}

\* the operations that persist the inventory document, and the way each writes
\* it: the creation routes and the network update call save_network_devices;
\* api_hierarchy opens the file itself, DeviceManager.add_device and
\* remove_device go through save_devices and save_json_file
PersistingOps ==
    {"create_zone", "create_group", "create_location", "create_device",
     "update_device_network", "api_hierarchy", "add_device", "remove_device"}
WritePath(op) ==
    IF op \in {"api_hierarchy", "add_device", "remove_device"} THEN "inplace" ELSE "atomic"

\* a request handler starts to persist its document: through
\* save_network_devices, file_helpers.py lines 34-36, or in place as
\* api_hierarchy does
StartWrite(w, kind) ==
    /\ pc[w] = "idle" /\ started < MaxWrites
    /\ started' = started + 1
    /\ job' = [job EXCEPT ![w] = [kind |-> kind, fd |-> 0, off |-> 0, err |-> "none"]]
    /\ pc' = [pc EXCEPT ![w] = IF kind = "atomic" THEN "acquire" ELSE "inplace"]
    /\ polls' = [polls EXCEPT ![w] = 0]
    /\ UNCHANGED <<files, target, tmp, lock, rfd, seen>>

\* the lock file created with O_CREAT | O_EXCL, without waiting for its absence
AcquireLockNoExcl(w) ==
    /\ pc[w] = "acquire"
    /\ lock' = w
    /\ pc' = [pc EXCEPT ![w] = "open"]
    /\ UNCHANGED <<polls, job>>
    /\ UNCHANGED <<files, target, tmp, started, rfd, seen>>

\* the lock file removed when the wait for it times out
AcquireLockTimeoutReleases(w) ==
    /\ pc[w] = "acquire"
    /\ IF lock = 0
       THEN /\ lock' = w
            /\ pc' = [pc EXCEPT ![w] = "open"]
            /\ UNCHANGED <<polls, job>>
       ELSE IF polls[w] >= LockTimeoutPolls
            THEN /\ pc' = [pc EXCEPT ![w] = "failed"]
                 /\ job' = [job EXCEPT ![w].err = "RuntimeError"]
                 /\ lock' = 0
                 /\ UNCHANGED polls
            ELSE /\ polls' = [polls EXCEPT ![w] = polls[w] + 1]
                 /\ UNCHANGED <<lock, pc, job>>
    /\ UNCHANGED <<files, target, tmp, started, rfd, seen>>

\* one pass of the loop of _acquire_lock, lines 273-282, and the raise of
\* lines 304-305 when it gives up
AcquireLock(w) ==
    /\ pc[w] = "acquire"
    /\ IF lock = 0
       THEN /\ lock' = w
            /\ pc' = [pc EXCEPT ![w] = "open"]
            /\ UNCHANGED <<polls, job>>
       ELSE IF polls[w] >= LockTimeoutPolls
            THEN /\ pc' = [pc EXCEPT ![w] = "failed"]
                 /\ job' = [job EXCEPT ![w].err = "RuntimeError"]
                 /\ UNCHANGED <<lock, polls>>
            ELSE /\ polls' = [polls EXCEPT ![w] = polls[w] + 1]
                 /\ UNCHANGED <<lock, pc, job>>
    /\ UNCHANGED <<files, target, tmp, started, rfd, seen>>

\* open(tmp_path, "w"), line 309: the file created, or truncated if the name exists
OpenTmp(w) ==
    /\ pc[w] = "open"
    /\ LET ino == IF tmp # 0 THEN tmp ELSE NewInode(files, Referenced(target, tmp, rfd, job))
       IN /\ tmp' = ino
          /\ files' = Store(files, ino, << >>)
          /\ job' = [job EXCEPT ![w].fd = ino, ![w].off = 0]
    /\ pc' = [pc EXCEPT ![w] = "write"]
    /\ UNCHANGED <<target, lock, polls, started, rfd, seen>>

\* json.dump, flush and fsync, lines 310-312: the document reaches the temp
\* file piece by piece; or a write raises OSError and the finally clause runs
WriteTmp(w) ==
    /\ pc[w] = "write"
    /\ \/ /\ files' = [files EXCEPT ![job[w].fd] = WriteAt(@, job[w].off, w)]
          /\ job' = [job EXCEPT ![w].off = @ + 1]
          /\ pc' = [pc EXCEPT ![w] = IF job[w].off + 1 = DocChunks THEN "replace" ELSE "write"]
       \/ /\ job' = [job EXCEPT ![w].err = "OSError"]
          /\ pc' = [pc EXCEPT ![w] = "release"]
          /\ UNCHANGED files
    /\ UNCHANGED <<target, tmp, lock, polls, started, rfd, seen>>

\* the close of the with block and os.replace(tmp_path, path), line 315
ReplaceTarget(w) ==
    /\ pc[w] = "replace"
    /\ IF tmp = 0
       THEN /\ job' = [job EXCEPT ![w].err = "FileNotFoundError", ![w].fd = 0]
            /\ files' = Gc(files, target, tmp, rfd, job')
            /\ UNCHANGED <<target, tmp>>
       ELSE /\ target' = tmp
            /\ tmp' = 0
            /\ job' = [job EXCEPT ![w].fd = 0]
            /\ files' = Gc(files, target', tmp', rfd, job')
    /\ pc' = [pc EXCEPT ![w] = "release"]
    /\ UNCHANGED <<lock, polls, started, rfd, seen>>

\* _release_lock in the finally clause, lines 316-318 and 285-291; the call
\* returns, or the exception goes on to the caller
ReleaseLock(w) ==
    /\ pc[w] = "release"
    /\ lock' = 0
    /\ job' = [job EXCEPT ![w].fd = 0]
    /\ files' = Gc(files, target, tmp, rfd, job')
    /\ pc' = [pc EXCEPT ![w] = IF job[w].err = "none" THEN "done" ELSE "failed"]
    /\ UNCHANGED <<target, tmp, polls, started, rfd, seen>>

\* open(data_path, 'w') of api_hierarchy, app/__init__.py line 397: the target
\* is truncated where it is
InPlaceOpen(w) ==
    /\ pc[w] = "inplace" /\ job[w].fd = 0
    /\ files' = [files EXCEPT ![target] = << >>]
    /\ job' = [job EXCEPT ![w].fd = target, ![w].off = 0]
    /\ UNCHANGED <<target, tmp, lock, pc, polls, started, rfd, seen>>

\* json.dump into the open target, app/__init__.py line 398, and the close
InPlaceWrite(w) ==
    /\ pc[w] = "inplace" /\ job[w].fd # 0
    /\ LET done == job[w].off + 1 = DocChunks
           fs == [files EXCEPT ![job[w].fd] = WriteAt(@, job[w].off, w)]
       IN /\ job' = [job EXCEPT ![w].off = @ + 1, ![w].fd = IF done THEN 0 ELSE @]
          /\ files' = Gc(fs, target, tmp, rfd, job')
          /\ pc' = [pc EXCEPT ![w] = IF done THEN "done" ELSE "inplace"]
    /\ UNCHANGED <<target, tmp, lock, polls, started, rfd, seen>>

\* the handler answers its request, with the error if there was one
Return(w) ==
    /\ pc[w] \in {"done", "failed"}
    /\ pc' = [pc EXCEPT ![w] = "idle"]
    /\ job' = [job EXCEPT ![w] = NoJob]
    /\ polls' = [polls EXCEPT ![w] = 0]
    /\ UNCHANGED <<files, target, tmp, lock, started, rfd, seen>>

\* load_network_devices, lines 27-32: open(path, "r") ...
ReaderOpen ==
    /\ rfd = 0
    /\ rfd' = target
    /\ seen' = NotRead
    /\ UNCHANGED <<files, target, tmp, lock, pc, polls, job, started>>

\* ... and json.load(f), with no lock taken
ReaderLoad ==
    /\ rfd # 0
    /\ seen' = [read |-> TRUE, data |-> files[rfd]]
    /\ rfd' = 0
    /\ files' = Gc(files, target, tmp, rfd', job)
    /\ UNCHANGED <<target, tmp, lock, pc, polls, job, started>>

WriterStep(w) ==
    \/ \E op \in PersistingOps : StartWrite(w, WritePath(op))
    \/ AcquireLock(w)
    \/ OpenTmp(w)
    \/ WriteTmp(w)
    \/ ReplaceTarget(w)
    \/ ReleaseLock(w)
    \/ InPlaceOpen(w)
    \/ InPlaceWrite(w)
    \/ Return(w)

InitStoreSpec ==
    /\ disk = <<FixtureDevice, Unaddressed>>
    /\ index = Flatten(disk)
    /\ call = NoCall
    /\ sent = << >>
    /\ result = None
    /\ prev = NoPrev
    /\ status = NoStatus(index)
    /\ now = 0
    /\ CreateIdle
    /\ HandlersIdle
    /\ ReloadIdle
    /\ RequestIdle
    /\ InitStore
    /\ CodecIdle

NextStore ==
    \/ \E w \in Writers, op \in PersistingOps : StartWrite(w, WritePath(op)) /\ UNCHANGED besidesStore
    \/ \E w \in Writers : AcquireLock(w) /\ UNCHANGED besidesStore
    \/ \E w \in Writers : OpenTmp(w) /\ UNCHANGED besidesStore
    \/ \E w \in Writers : WriteTmp(w) /\ UNCHANGED besidesStore
    \/ \E w \in Writers : ReplaceTarget(w) /\ UNCHANGED besidesStore
    \/ \E w \in Writers : ReleaseLock(w) /\ UNCHANGED besidesStore
    \/ \E w \in Writers : InPlaceOpen(w) /\ UNCHANGED besidesStore
    \/ \E w \in Writers : InPlaceWrite(w) /\ UNCHANGED besidesStore
    \/ \E w \in Writers : Return(w) /\ UNCHANGED besidesStore
    \/ ReaderOpen /\ UNCHANGED besidesStore
    \/ ReaderLoad /\ UNCHANGED besidesStore

SpecStore == InitStoreSpec /\ [][NextStore]_vars

\* a thread that can run is eventually run
SpecStoreFair == SpecStore /\ \A w \in Writers : WF_vars(WriterStep(w) /\ UNCHANGED besidesStore)

\* ------------------------------------------- the creation routes, from an
\* empty document: zones, groups, locations and devices are added one request
\* at a time; a request naming a parent that does not exist is answered 404
\* and changes nothing
RECURSIVE Concat(_)
Concat(seqs) == IF seqs = << >> THEN << >> ELSE Head(seqs) \o Concat(Tail(seqs))

\* a device as the routes build it from a request that gives a name only; the
\* name tells the devices of the document apart
NewDevice(id, name) == [device_id |-> id, device_name |-> name]
\* a location: 'device' is the list load_devices reads, 'device_id' the key
\* create_zone files its default device under
NewLocation(id, device, device_id) ==
    [location_id |-> id, device |-> device, device_id |-> device_id]
\* a group: 'location' is the list load_devices reads, 'locations' the key
\* create_zone files its default location under
NewGroup(id, location, locations) ==
    [group_id |-> id, location |-> location, locations |-> locations]

\* max((x.get(key, 0) for x in existing), default=0) + 1, or 1 for an empty list
NextId(ids) ==
    IF ids = << >> THEN 1
    ELSE (CHOOSE m \in {ids[i] : i \in 1..Len(ids)} \cup {0} :
             \A i \in 1..Len(ids) : ids[i] <= m) + 1

\* next((x for x in xs if x.get(key) == id), None): its position, 0 for None
FirstAt(ids, id) ==
    IF \E i \in 1..Len(ids) : ids[i] = id
    THEN CHOOSE i \in 1..Len(ids) : ids[i] = id /\ \A j \in 1..(i - 1) : ids[j] # id
    ELSE 0

ZoneIds(h) == [i \in 1..Len(h.zones) |-> h.zones[i].zone_id]
GroupIds(zone) == [i \in 1..Len(zone.groups) |-> zone.groups[i].group_id]
LocationIds(group) == [i \in 1..Len(group.location) |-> group.location[i].location_id]
DeviceIds(location) == [i \in 1..Len(location.device) |-> location.device[i].device_id]

\* the devices load_devices visits, in document order (device_manager.py lines 50-53)
DocDevices(h) ==
    Concat([z \in 1..Len(h.zones) |->
        Concat([g \in 1..Len(h.zones[z].groups) |->
            Concat([l \in 1..Len(h.zones[z].groups[g].location) |->
                h.zones[z].groups[g].location[l].device])])])

\* the document DeviceManager.load_devices flattens
Persisted(h) ==
    LET devs == DocDevices(h)
    IN [i \in 1..Len(devs) |-> Device(devs[i].device_id, NoIp, NoColor, << >>, << >>, PyNone)]

\* save_network_devices(hierarchy) and the answer; the manager is not told
Saves(h) ==
    /\ hierarchy' = h
    /\ disk' = Persisted(h)
    /\ creates' = creates + 1
    /\ call' = EditCall /\ sent' = << >> /\ result' = None
    /\ UNCHANGED <<index, status, prev>>

\* POST /api/zones, api/zones.py lines 6-46
CreateZone ==
    LET zone_id == Len(hierarchy.zones) + 1
        default_device == NewDevice(1, creates + 1)
        default_location == NewLocation(1, << >>, <<default_device>>)
        default_group == NewGroup(1, << >>, <<default_location>>)
        new_zone == [zone_id |-> zone_id, groups |-> <<default_group>>]
    IN Saves([hierarchy EXCEPT !.zones = Append(@, new_zone)])

\* POST /api/zones/<zone_id>/groups, api/groups.py lines 42-110
CreateGroup(zone_id) ==
    LET z == FirstAt(ZoneIds(hierarchy), zone_id)
        new_id == NextId(GroupIds(hierarchy.zones[z]))
        default_device == NewDevice(1, creates + 1)
        default_location == NewLocation(1, <<default_device>>, << >>)
        new_group == NewGroup(new_id, <<default_location>>, << >>)
    IN /\ z # 0
       /\ Saves([hierarchy EXCEPT !.zones[z].groups = Append(@, new_group)])

\* POST /api/zones/<zone_id>/groups/<group_id>/locations, api/locations.py lines 6-72
CreateLocation(zone_id, group_id, create_default) ==
    LET z == FirstAt(ZoneIds(hierarchy), zone_id)
        g == FirstAt(GroupIds(hierarchy.zones[z]), group_id)
        new_id == NextId(LocationIds(hierarchy.zones[z].groups[g]))
        default_device == NewDevice(1, creates + 1)
        new_location == NewLocation(new_id,
                                    IF create_default THEN <<default_device>> ELSE << >>,
                                    << >>)
    IN /\ z # 0 /\ g # 0
       /\ Saves([hierarchy EXCEPT !.zones[z].groups[g].location = Append(@, new_location)])

\* POST /api/zones/<z>/groups/<g>/locations/<l>/devices, api/devices.py lines 9-91
CreateDevice(zone_id, group_id, location_id) ==
    LET z == FirstAt(ZoneIds(hierarchy), zone_id)
        g == FirstAt(GroupIds(hierarchy.zones[z]), group_id)
        l == FirstAt(LocationIds(hierarchy.zones[z].groups[g]), location_id)
        new_id == NextId(DeviceIds(hierarchy.zones[z].groups[g].location[l]))
        new_device == NewDevice(new_id, creates + 1)
    IN /\ z # 0 /\ g # 0 /\ l # 0
       /\ Saves([hierarchy EXCEPT
                    !.zones[z].groups[g].location[l].device = Append(@, new_device)])

InitCreate ==
    /\ disk = << >>
    /\ index = Flatten(disk)
    /\ call = NoCall
    /\ sent = << >>
    /\ result = None
    /\ prev = NoPrev
    /\ status = NoStatus(index)
    /\ now = 0
    /\ CreateIdle
    /\ HandlersIdle
    /\ ReloadIdle
    /\ RequestIdle
    /\ InitStore
    /\ CodecIdle

PathIds == 1..MaxCreates
besidesCreate == <<storeVars, codecVars, now, clientVars, reloadVars, raceVars>>

NextCreate ==
    \/ creates < MaxCreates /\ CreateZone /\ UNCHANGED besidesCreate
    \/ creates < MaxCreates /\ (\E zone_id \in PathIds : CreateGroup(zone_id))
          /\ UNCHANGED besidesCreate
    \/ creates < MaxCreates
          /\ (\E zone_id \in PathIds, group_id \in PathIds, create_default \in BOOLEAN :
                 CreateLocation(zone_id, group_id, create_default))
          /\ UNCHANGED besidesCreate
    \/ creates < MaxCreates
          /\ (\E zone_id \in PathIds, group_id \in PathIds, location_id \in PathIds :
                 CreateDevice(zone_id, group_id, location_id))
          /\ UNCHANGED besidesCreate

SpecCreate == InitCreate /\ [][NextCreate]_vars

\* ----------------------------------------- the transport client's requests
\* ESP32Client._make_request, esp32_client.py lines 36-85.  req.attempt is the
\* loop variable, req.outcomes what each attempt ended in, req.sleeps the
\* waits made, in half seconds, and req.result what the call returned.
max_retries == 3
Methods == {"GET", "POST", "PUT", "DELETE"}
\* a response with a JSON body, or with another body
Successes == {"json", "text"}
\* requests.exceptions.Timeout and ConnectionError, lines 70-73
Retried == {"timeout", "connection"}
\* requests.exceptions.HTTPError and any other exception, lines 74-79
Fatal == {"http", "unexpected"}
\* an unsupported method raises ValueError before anything is sent, line 59
AttemptOutcomes(method) ==
    IF method \in {"GET", "POST", "PUT"} THEN Successes \cup Retried \cup Fatal
    ELSE {"unexpected"}

\* the call, up to the first pass of the loop, line 48
MakeRequest(method) ==
    /\ req.pc = "idle"
    /\ req' = [req EXCEPT !.method = method,
                          !.pc = IF 0 < max_retries THEN "attempt" ELSE "returned",
                          !.result = IF 0 < max_retries THEN "pending" ELSE "None"]

\* one pass of the loop that goes on after an HTTP error as well
AttemptRetriesHttpError(outcome) ==
    LET again == outcome \in Retried \cup {"http"}
        last == ~(req.attempt < max_retries - 1)
    IN /\ req.pc = "attempt"
       /\ req' = [req EXCEPT
                    !.outcomes = Append(@, outcome),
                    !.pc = IF again /\ ~last THEN "sleep" ELSE "returned",
                    !.result = IF outcome = "json" THEN "dict"
                               ELSE IF outcome = "text" THEN "wrapped"
                               ELSE IF again /\ ~last THEN "pending"
                               ELSE "None"]

\* one pass of the loop, lines 49-80: the attempt and what follows it, up to
\* the return (lines 66, 69, 76, 79, or 85 after the last pass) or the sleep
Attempt(outcome) ==
    LET again == outcome \in Retried
        last == ~(req.attempt < max_retries - 1)
    IN /\ req.pc = "attempt"
       /\ req' = [req EXCEPT
                    !.outcomes = Append(@, outcome),
                    !.pc = IF again /\ ~last THEN "sleep" ELSE "returned",
                    !.result = IF outcome = "json" THEN "dict"
                               ELSE IF outcome = "text" THEN "wrapped"
                               ELSE IF again /\ ~last THEN "pending"
                               ELSE "None"]

\* time.sleep(0.5 * (attempt + 1)), line 82, and the next pass of the loop
Sleep ==
    /\ req.pc = "sleep"
    /\ req' = [req EXCEPT !.sleeps = Append(@, req.attempt + 1),
                          !.attempt = @ + 1,
                          !.pc = "attempt"]

besidesClient == <<mgrAll, storeVars, codecVars, statusVars, createVars, reloadVars, raceVars>>

InitRetry ==
    /\ disk = <<FixtureDevice>>
    /\ index = Flatten(disk)
    /\ call = NoCall
    /\ sent = << >>
    /\ result = None
    /\ prev = NoPrev
    /\ status = NoStatus(index)
    /\ now = 0
    /\ CreateIdle
    /\ HandlersIdle
    /\ ReloadIdle
    /\ RequestIdle
    /\ InitStore
    /\ CodecIdle

RetryCall == (\E method \in Methods : MakeRequest(method)) /\ UNCHANGED besidesClient
RetryAttempt ==
    (\E outcome \in AttemptOutcomes(req.method) : Attempt(outcome)) /\ UNCHANGED besidesClient
RetrySleep == Sleep /\ UNCHANGED besidesClient

NextRetry == RetryCall \/ RetryAttempt \/ RetrySleep
SpecRetry == InitRetry /\ [][NextRetry]_vars
\* an attempt ends (the request has a timeout) and so does a sleep
SpecRetryFair == SpecRetry /\ WF_vars(RetryAttempt) /\ WF_vars(RetrySleep)

\* ------------------------------------------- a reload beside a reader
\* load_devices and get_device_state step by step, as two threads of the
\* server run them: the steps are the reads and writes of self.devices_data.

\* load_devices up to its assignment, lines 43-65: the document is read and
\* flattened into the local flat_devices
LoadBuild ==
    /\ loader.pc = "idle"
    /\ loader' = [pc |-> "built", flat_devices |-> Flatten(disk)]
    /\ UNCHANGED <<disk, index, status, reader>>

\* self.devices_data = flat_devices, line 66 (lines 47 and 70 when there is
\* nothing to flatten): the entries are new, without status and last_seen
LoadSwap ==
    /\ loader.pc = "built"
    /\ index' = loader.flat_devices
    /\ status' = NoStatus(index')
    /\ loader' = NoLoad
    /\ UNCHANGED <<disk, reader>>

\* get_device_state, line 136: get_device_ip reads the index
ReadIp(id) ==
    /\ reader.pc = "idle"
    /\ reader' = [NoReader EXCEPT !.id = id, !.views = <<index>>,
                                  !.pc = IF GetDeviceIp(index, id) = NoIp THEN "done"
                                         ELSE "fetching"]
    /\ UNCHANGED <<disk, index, status, loader>>

\* line 141: the request to the device, which takes as long as the device does
ReadFetch(outcome) ==
    /\ reader.pc = "fetching"
    /\ reader' = [reader EXCEPT !.state = Value(outcome), !.pc = "check"]
    /\ UNCHANGED <<disk, index, status, loader>>

\* `if device_id_int in self.devices_data`, line 145 or 150
ReadCheck ==
    /\ reader.pc = "check"
    /\ reader' = [reader EXCEPT
                    !.views = Append(@, index),
                    !.pc = IF reader.id \notin DOMAIN index THEN "done"
                           ELSE IF StateTruthy(reader.state) THEN "stamp" ELSE "mark"]
    /\ UNCHANGED <<disk, index, status, loader>>

\* self.devices_data[device_id_int]['last_seen'] = ..., line 146: KeyError
\* when the index read here has no such device
ReadStamp ==
    /\ reader.pc = "stamp"
    /\ IF reader.id \in DOMAIN index
       THEN /\ status' = [status EXCEPT ![reader.id].last_seen = now]
            /\ reader' = [reader EXCEPT !.views = Append(@, index), !.pc = "mark"]
       ELSE /\ status' = status
            /\ reader' = [reader EXCEPT !.views = Append(@, index), !.pc = "done",
                                        !.raised = TRUE]
    /\ UNCHANGED <<disk, index, loader>>

\* self.devices_data[device_id_int]['status'] = ..., line 147 or 151
ReadMark ==
    /\ reader.pc = "mark"
    /\ IF reader.id \in DOMAIN index
       THEN /\ status' = [status EXCEPT ![reader.id].status =
                             IF StateTruthy(reader.state) THEN "online" ELSE "offline"]
            /\ reader' = [reader EXCEPT !.views = Append(@, index), !.pc = "done"]
       ELSE /\ status' = status
            /\ reader' = [reader EXCEPT !.views = Append(@, index), !.pc = "done",
                                        !.raised = TRUE]
    /\ UNCHANGED <<disk, index, loader>>

\* line 152, or the KeyError reaching the caller
ReadReturn ==
    /\ reader.pc = "done"
    /\ reader' = NoReader
    /\ UNCHANGED <<disk, index, status, loader>>

besidesReload == <<prev, storeVars, codecVars, now, createVars, clientVars, raceVars>>

InitReload ==
    /\ disk = <<FixtureDevice, Unaddressed>>
    /\ index = Flatten(disk)
    /\ call = NoCall
    /\ sent = << >>
    /\ result = None
    /\ prev = NoPrev
    /\ status = NoStatus(index)
    /\ now = 0
    /\ CreateIdle
    /\ HandlersIdle
    /\ RequestIdle
    /\ ReloadIdle
    /\ InitStore
    /\ CodecIdle

\* the document changes through PUT /api/hierarchy, which reloads nothing
ReloadPut ==
    /\ \E doc \in PutDocuments : HierarchyPut(doc)
    /\ UNCHANGED <<loader, reader>> /\ UNCHANGED besidesReload
ReloadStep ==
    /\ LoadBuild \/ LoadSwap
    /\ UNCHANGED <<call, sent, result>> /\ UNCHANGED besidesReload
ReaderStep ==
    /\ \/ \E id \in CallIds : ReadIp(id)
       \/ \E outcome \in FetchOutcomes : ReadFetch(outcome)
       \/ ReadCheck \/ ReadStamp \/ ReadMark \/ ReadReturn
    /\ UNCHANGED <<call, sent, result>> /\ UNCHANGED besidesReload

NextReload == ReloadPut \/ ReloadStep \/ ReaderStep
SpecReload == InitReload /\ [][NextReload]_vars

\* ------------------------------------------- two creation requests at once
\* The creation routes step by step, as two threads of the server run them:
\* a route loads the document (load_network_devices), changes its own copy,
\* and saves it (save_network_devices); no lock is held from the load to the
\* save.

\* the document after POST /api/zones and POST /api/zones/1/groups
SeedHierarchy ==
    [zones |->
        <<[zone_id |-> 1,
           groups |-> <<NewGroup(1, << >>, <<NewLocation(1, << >>, <<NewDevice(1, 1)>>)>>),
                        NewGroup(2, <<NewLocation(1, <<NewDevice(1, 2)>>, << >>)>>, << >>)>>]>>]
SeedCreates == 2

\* the name a request gives its device
RequestName(r) == SeedCreates + r

\* create_device, lines 24-39: whether zone, group and location are found
LocationFound(h, zone_id, group_id, location_id) ==
    LET z == FirstAt(ZoneIds(h), zone_id)
    IN IF z = 0 THEN FALSE
       ELSE LET g == FirstAt(GroupIds(h.zones[z]), group_id)
            IN IF g = 0 THEN FALSE
               ELSE FirstAt(LocationIds(h.zones[z].groups[g]), location_id) # 0

\* create_device, lines 41-80: the loaded document with the new device appended
WithDevice(h, zone_id, group_id, location_id, name) ==
    LET z == FirstAt(ZoneIds(h), zone_id)
        g == FirstAt(GroupIds(h.zones[z]), group_id)
        l == FirstAt(LocationIds(h.zones[z].groups[g]), location_id)
        new_id == NextId(DeviceIds(h.zones[z].groups[g].location[l]))
    IN [h EXCEPT !.zones[z].groups[g].location[l].device = Append(@, NewDevice(new_id, name))]

\* create_zone, api/zones.py lines 17-41: the loaded document with the new zone
WithZone(h, name) ==
    LET default_location == NewLocation(1, << >>, <<NewDevice(1, name)>>)
        default_group == NewGroup(1, << >>, <<default_location>>)
    IN [h EXCEPT !.zones = Append(@, [zone_id |-> Len(h.zones) + 1,
                                      groups |-> <<default_group>>])]

\* create_group, api/groups.py lines 60-104: the loaded document with the new
\* group, its default location and default device
WithGroup(h, zone_id, name) ==
    LET z == FirstAt(ZoneIds(h), zone_id)
        new_id == NextId(GroupIds(h.zones[z]))
        default_location == NewLocation(1, <<NewDevice(1, name)>>, << >>)
    IN [h EXCEPT !.zones[z].groups = Append(@, NewGroup(new_id, <<default_location>>, << >>))]

\* create_device from the request to the probe of the device (lines 16-78):
\* the document is loaded and the device appended to the loaded copy, or the
\* request is answered 404
HandlerLoadDevice(r, zone_id, group_id, location_id) ==
    /\ handlers[r].pc = "idle"
    /\ handlers' = [handlers EXCEPT ![r] =
          IF LocationFound(hierarchy, zone_id, group_id, location_id)
          THEN [pc |-> "loaded", kind |-> "device", name |-> RequestName(r), code |-> 0,
                hierarchy |-> WithDevice(hierarchy, zone_id, group_id, location_id,
                                         RequestName(r))]
          ELSE [pc |-> "answered", kind |-> "device", name |-> RequestName(r), code |-> 404,
                hierarchy |-> hierarchy]]
    /\ UNCHANGED <<hierarchy, creates, disk, index, status, prev, call, sent, result>>

\* create_zone from the request to the save (api/zones.py lines 11-41)
HandlerLoadZone(r) ==
    /\ handlers[r].pc = "idle"
    /\ handlers' = [handlers EXCEPT ![r] =
          [pc |-> "loaded", kind |-> "zone", name |-> RequestName(r), code |-> 0,
           hierarchy |-> WithZone(hierarchy, RequestName(r))]]
    /\ UNCHANGED <<hierarchy, creates, disk, index, status, prev, call, sent, result>>

\* create_group from the request to the save (api/groups.py lines 42-104)
HandlerLoadGroup(r, zone_id) ==
    /\ handlers[r].pc = "idle"
    /\ handlers' = [handlers EXCEPT ![r] =
          IF FirstAt(ZoneIds(hierarchy), zone_id) # 0
          THEN [pc |-> "loaded", kind |-> "group", name |-> RequestName(r), code |-> 0,
                hierarchy |-> WithGroup(hierarchy, zone_id, RequestName(r))]
          ELSE [pc |-> "answered", kind |-> "group", name |-> RequestName(r), code |-> 404,
                hierarchy |-> hierarchy]]
    /\ UNCHANGED <<hierarchy, creates, disk, index, status, prev, call, sent, result>>

\* save_network_devices(hierarchy) and the 201 answer (lines 83-85)
HandlerSave(r) ==
    /\ handlers[r].pc = "loaded"
    /\ Saves(handlers[r].hierarchy)
    /\ handlers' = [handlers EXCEPT ![r].pc = "answered", ![r].code = 201]

besidesRace == <<storeVars, codecVars, now, clientVars, reloadVars>>

InitRace ==
    /\ hierarchy = SeedHierarchy
    /\ creates = SeedCreates
    /\ disk = Persisted(hierarchy)
    /\ index = << >>
    /\ call = NoCall
    /\ sent = << >>
    /\ result = None
    /\ prev = NoPrev
    /\ status = NoStatus(index)
    /\ now = 0
    /\ HandlersIdle
    /\ ReloadIdle
    /\ RequestIdle
    /\ InitStore
    /\ CodecIdle

RacePaths == 1..2
RaceLoadDevice ==
    /\ \E r \in Handlers, zone_id \in RacePaths, group_id \in RacePaths, location_id \in RacePaths :
          HandlerLoadDevice(r, zone_id, group_id, location_id)
    /\ UNCHANGED besidesRace
RaceLoadZone == (\E r \in Handlers : HandlerLoadZone(r)) /\ UNCHANGED besidesRace
RaceLoadGroup ==
    /\ \E r \in Handlers, zone_id \in RacePaths : HandlerLoadGroup(r, zone_id)
    /\ UNCHANGED besidesRace
RaceSave == (\E r \in Handlers : HandlerSave(r)) /\ UNCHANGED besidesRace

NextRace == RaceLoadDevice \/ RaceLoadZone \/ RaceLoadGroup \/ RaceSave
SpecRace == InitRace /\ [][NextRace]_vars

\* ------------------------------------------------------------ the claims
IsCall == call.op \in {"power", "apply"}
\* the state updates among the requests of the last call
Updates == UpdatesOf(sent)
\* the device the last call is about, as the call saw it
Saved == IF call.id \in DOMAIN index THEN index[call.id] ELSE NoDevice

Covering(seg_mapping, i) ==
    {k \in 1..Len(seg_mapping) : seg_mapping[k].start.v <= i /\ i < seg_mapping[k].stop.v}
Tiles(seg_mapping, n) ==
    /\ \A k \in 1..Len(seg_mapping) :
          /\ seg_mapping[k].start.k = "int" /\ seg_mapping[k].stop.k = "int"
          /\ 0 <= seg_mapping[k].start.v
          /\ seg_mapping[k].start.v < seg_mapping[k].stop.v
          /\ seg_mapping[k].stop.v <= n
    /\ \A i \in 0..(n - 1) : Cardinality(Covering(seg_mapping, i)) = 1

\* C1: whenever either handler auto-generates ranges for a device with saved
\* segment colours and a current colour, the generated ranges tile
\* [0, led_count): every LED index lies in exactly one range.
C1_AutoRangesTile ==
    (IsCall /\ call.auto /\ call.dev.device_segment_colors # << >>
        /\ Truthy(call.dev.device_current_color))
    => /\ call.led_count >= Len(call.dev.device_segment_colors)
       /\ Tiles(call.seg_mapping, call.led_count)

C1_Witness ==
    /\ call.op = "apply" /\ call.auto
    /\ Len(call.dev.device_segment_colors) = 2
    /\ Truthy(call.dev.device_current_color)
    /\ call.led_count = 300
    /\ Len(call.seg_mapping) = 3

WellFormed(c) == Rgb[c] # << >> /\ \A i \in 1..3 : Rgb[c][i] \in 0..255
AllValid(dev) ==
    /\ WellFormed(dev.device_current_color)
    /\ \A i \in 1..Len(dev.device_segment_colors) : WellFormed(dev.device_segment_colors[i])

\* a successful power-on of a device with two saved colours, a current colour
\* and no explicit mapping, all well-formed
PowerOnTwoColours ==
    /\ call.op = "power" /\ call.on /\ result = PowerAck /\ call.reconciled /\ call.auto
    /\ Len(call.dev.device_segment_colors) = 2
    /\ AllValid(call.dev)

\* C2: a successful power-on with two saved colours, a current colour, no
\* explicit mapping and a device reporting 300 LEDs sends one update of exactly
\* 60 segments: the two saved colours, then 58 entries of the current colour.
C2_SixtySegments ==
    (PowerOnTwoColours /\ TotalLeds(call.reply) = PyInt(300))
    => /\ Len(Updates) = 1
       /\ Len(Updates[1].seg) = 60
       /\ Updates[1].seg[1].col = <<Rgb[call.dev.device_segment_colors[1]]>>
       /\ Updates[1].seg[2].col = <<Rgb[call.dev.device_segment_colors[2]]>>
       /\ \A i \in 3..60 : Updates[1].seg[i].col = <<Rgb[call.dev.device_current_color]>>

\* C3: in the payload of a successful power-on the first segment starts at 0
\* and the last segment stops at L - 1, L being the LED count the device reports.
C3_LastStopIsCountMinusOne ==
    (PowerOnTwoColours /\ TotalLeds(call.reply).k = "int" /\ TotalLeds(call.reply).v >= 2)
    => /\ Len(Updates) = 1
       /\ Updates[1].seg[1].start = 0
       /\ Updates[1].seg[Len(Updates[1].seg)].stop = TotalLeds(call.reply).v - 1

\* the device answered, or the transport gave up, and no field of the answer
\* holds a positive count
NoUsableCount(reply) ==
    /\ reply.fetch \in {"ok", "none"}
    /\ reply.count <= 0 /\ reply.led_count <= 0 /\ reply.ledsV <= 0
    /\ reply.infoLedCount <= 0 /\ reply.infoCount <= 0
    /\ SumLens(reply.segLens) <= 0 /\ reply.leds <= 0 /\ reply.length <= 0

\* the calls that get as far as the state fetch
Fetches ==
    \/ call.op = "power" /\ call.on /\ result = PowerAck
    \/ call.op = "apply" /\ GetDeviceIp(index, call.id) # NoIp

\* C4: when the device supplies no usable LED count, a device with two saved
\* colours, a current colour and no explicit mapping is reconciled over 60
\* LEDs: [0,1) and [1,2) in the saved colours, [2,60) in the current colour.
C4_DefaultsToSixty ==
    (Fetches /\ NoUsableCount(call.reply)
        /\ Len(Saved.device_segment_colors) = 2
        /\ Truthy(Saved.device_current_color)
        /\ Saved.device_segment_mapping = << >>)
    => /\ call.reconciled
       /\ call.led_count = DefaultLedCount
       /\ call.seg_mapping =
            <<Entry(Saved.device_segment_colors[1], 0, 1),
              Entry(Saved.device_segment_colors[2], 1, 2),
              Entry(Saved.device_current_color, 2, DefaultLedCount)>>

White == <<255, 255, 255>>
\* a call that fetched the state of a device saved with ["not-a-color", "#ffffff"]
MalformedFirst ==
    /\ Fetches /\ (call.op = "power" => call.reply.fetch # "raise")
    /\ Saved.device_segment_colors = <<CnotAColor, Cffffff>>

Posts == SelectSeq(sent, LAMBDA r : r.method = "POST")
NothingSaved ==
    /\ IsCall /\ GetDeviceIp(index, call.id) # NoIp
    /\ Saved.device_segment_colors = << >>
    /\ ~Truthy(Saved.device_current_color)

\* C6: for a device with no saved segment colours and no current colour the
\* reconciliation sends no state update: a power call posts the power command
\* alone, apply_saved_state posts nothing and returns None.
C6_NothingSavedNothingSent ==
    NothingSaved
    => /\ Updates = << >>
       /\ call.op = "power" => Posts = <<PowerCommand(call.on)>>
       /\ call.op = "apply" => Posts = << >> /\ result = None

\* C6 as amended: the same, for a device that has no explicit mapping either;
\* no range is generated.
C6_NothingSavedNoMappingNothingSent ==
    (NothingSaved /\ Saved.device_segment_mapping = << >>)
    => /\ call.seg_mapping = << >>
       /\ Updates = << >>
       /\ call.op = "power" => Posts = <<PowerCommand(call.on)>>
       /\ call.op = "apply" => Posts = << >> /\ result = None

C6_Witness ==
    /\ NothingSaved /\ Saved.device_segment_mapping = << >>
    /\ call.op = "power" /\ call.on /\ result = PowerAck
    /\ call.reconciled /\ call.auto /\ call.led_count = 300
    /\ sent = <<PowerCommand(TRUE), GetState>>

\* two calls of apply_saved_state on one device in succession, the inventory
\* not written in between
AppliedTwice == call.op = "apply" /\ prev.valid /\ prev.id = call.id

\* the LED count a call of apply_saved_state derives from the device's reply
FetchedCount(reply) == IF reply.fetch = "raise" THEN PyInt(0) ELSE TotalLeds(reply)

\* C7: two calls of apply_saved_state in succession, the persisted inventory
\* unchanged in between, send the same state update.
C7_SamePayloadTwice == AppliedTwice => Updates = prev.updates

\* C7 as amended: they send the same state update when the device's state
\* fetch yields the same LED count in both calls.
C7_SamePayloadForSameCount ==
    (AppliedTwice /\ FetchedCount(call.reply) = FetchedCount(prev.reply))
    => Updates = prev.updates

C7_Witness ==
    /\ AppliedTwice /\ call.id = 1
    /\ call.reply = ReplyLeds300 /\ prev.reply = ReplyLeds300
    /\ Len(Updates) = 1 /\ Updates = prev.updates
    /\ index # << >> /\ index[1] # FixtureDevice

\* ---- the store
Inside(w) == pc[w] \in {"open", "write", "replace", "release"}
Other(w) == CHOOSE v \in Writers : v # w

\* C8: under any interleaving of two writers of the inventory file and a
\* reader that takes no lock, the file the target path names is never torn or
\* partial, and what the reader loads is a complete document, the old one or
\* a new one.
C8_TargetNeverTorn ==
    /\ Complete(files[target])
    /\ seen.read => Complete(seen.data)

\* C9: at most one writer is between the acquisition of the lock and its
\* release (the temp-file write and the rename): a writer there is the one
\* that created the lock file, the lock file is created only when there is
\* none, and it is removed only by its creator, at its release.
C9_OneWriterInside ==
    /\ [](\A w \in Writers : Inside(w) => lock = w)
    /\ [][/\ (lock # 0 /\ lock' # lock) => (lock' = 0 /\ pc[lock] = "release" /\ pc'[lock] # "release")
          /\ (lock' # 0 /\ lock' # lock) => (lock = 0 /\ pc[lock'] = "acquire")]_vars
C9_Witness ==
    \E w \in Writers :
        /\ pc[w] = "replace" /\ lock = w
        /\ pc[Other(w)] = "acquire" /\ polls[Other(w)] > 0

TimesOut(w) == pc[w] = "acquire" /\ pc'[w] = "failed"

\* C10: a write that cannot acquire the lock within the timeout fails with
\* RuntimeError, which its caller gets; the failing attempt leaves the target
\* document, the temp file and the other writer's lock as they were; and the
\* wait is bounded: a writer waiting for the lock leaves the wait.
C10_TimeoutFailsCleanly ==
    /\ [][\A w \in Writers : TimesOut(w) =>
            /\ job'[w].err = "RuntimeError"
            /\ polls[w] = LockTimeoutPolls
            /\ lock = Other(w) /\ lock' = lock
            /\ files' = files /\ target' = target /\ tmp' = tmp]_vars
    /\ [](\A w \in Writers : polls[w] <= LockTimeoutPolls)
    /\ \A w \in Writers : (pc[w] = "acquire") ~> (pc[w] # "acquire")
C10_Witness ==
    \E w \in Writers :
        /\ pc[w] = "failed" /\ job[w].err = "RuntimeError"
        /\ lock = Other(w) /\ Inside(Other(w))
        /\ tmp # 0 /\ files[tmp] # << >>

\* C11: every operation that persists the inventory document stages it in the
\* temp file and renames it over the target under the lock: the content the
\* target path names changes only by a writer's os.replace while it holds the
\* lock, and no write is made in place.
C11_OnlyAtomicRewrites ==
    [][/\ files'[target'] # files[target]
          => \E w \in Writers : pc[w] = "replace" /\ lock = w /\ target' = tmp
       /\ \A w \in Writers : job'[w].kind # "inplace"]_vars

\* C12: a document written with save_network_devices and read back with
\* load_network_devices is structurally equal to the one written: the same
\* zones, groups, locations and devices, members and items in the same order.
C12_RoundTrip == (loaded.read /\ loaded.saved) => loaded.v = document
C12_Witness ==
    /\ loaded.read /\ loaded.saved /\ loaded.v = document
    /\ document = DocumentJson(<<[name |-> NameAccented, groups |-> <<GroupJson(1, <<DeviceB, DeviceA>>)>>],
                                  [name |-> NamePlain, groups |-> << >>]>>)
    /\ \E i \in 1..Len(text) : text[i].t = "str" /\ Len(text[i].s) >= 5
                                /\ SubSeq(text[i].s, 4, 5) = <<Backslash, "u">>

\* C13: when the power toggle of set_device_power(id, on) got a response, the
\* call returns that response, whatever the reconciliation after it did: a
\* state fetch that failed or raised, saved data that could not be used, a
\* segment update that failed or raised.
C13_PowerResultKept ==
    (call.op = "power" /\ call.power = "ok") => result = PowerAck
C13_Witness ==
    /\ call.op = "power" /\ call.on /\ call.power = "ok" /\ result = PowerAck
    /\ call.update = "raise" /\ Updates # << >>


\* C14: a state read or a power command on an id that is absent from the index
\* is answered with DeviceNotFound, which the answer for an id that is in the
\* index without an address is not
C14_AbsentIdIsDeviceNotFound ==
    call.op \in {"state", "power"} =>
        /\ call.id \notin DOMAIN index
              => Response(call, result, index).error_type = DeviceNotFound
        /\ (call.id \in DOMAIN index /\ GetDeviceIp(index, call.id) = NoIp)
              => Response(call, result, index).error_type # DeviceNotFound

\* C15: after a call of the transport client for an addressed device of the
\* index, a state read or a power command alike, the device's status is
\* online with a last_seen if the call returned a value and offline if not
C15_StatusReflectsLastCall ==
    (call.op \in {"state", "power"} /\ GetDeviceIp(index, call.id) # NoIp)
        => LET returned == IF call.op = "power" THEN call.power = "ok"
                           ELSE StateTruthy(Value(call.fetches[call.id]))
           IN IF returned
              THEN status[call.id].status = "online" /\ status[call.id].last_seen # Never
              ELSE status[call.id].status = "offline"

\* the requests apply_saved_state makes for the device with the id in the
\* document doc when the device answers the state fetch with reply
PayloadOf(doc, id, reply) ==
    LET idx == Flatten(doc)
        ip == GetDeviceIp(idx, id)
        rec == Reconcile(idx[id], FetchedCount(reply))
    IN IF ip = NoIp THEN << >>
       ELSE <<GetState>>
            \o (IF ~rec.raised /\ rec.seg_updates # << >>
                THEN <<StateData(idx[id], rec.seg_updates)>> ELSE << >>)

\* C16: when the document on disk was changed after the index was last loaded,
\* the requests of apply_saved_state are those the persisted document gives:
\* its address decides whether the device is contacted, its saved colours,
\* mapping and brightness make the state update
C16_PayloadFromPersisted ==
    (call.op = "apply" /\ call.stale) => sent = PayloadOf(disk, call.id, call.reply)

C16_Witness ==
    /\ call.op = "apply" /\ call.stale /\ call.id = 1
    /\ disk = <<MappedDevice>>
    /\ call.dev = MappedDevice
    /\ Len(Updates) = 1 /\ Updates[1].bri = 200 /\ Len(Updates[1].seg) = 2
    /\ sent = PayloadOf(disk, 1, ReplyLeds300)

\* C17: apply_saved_state leaves the power of the device alone: none of the
\* requests it posts carries the "on" key
C17_ApplyKeepsPower ==
    call.op = "apply" => \A i \in 1..Len(Posts) : "on" \notin Posts[i].keys

\* C18: when an operation that writes the inventory document has returned, the
\* manager's index holds exactly the devices of the persisted document
C18_IndexRefreshedAfterWrite ==
    call.op = "edit" => index = Flatten(disk)

\* C19: after any sequence of creation requests from the empty document, no
\* two devices of the document have the same device_id, and the flattened
\* document has one entry for each device
C19_DeviceIdsUnique ==
    LET devs == DocDevices(hierarchy)
    IN /\ \A i, j \in 1..Len(devs) : devs[i].device_id = devs[j].device_id => i = j
       /\ Cardinality(DOMAIN Flatten(disk)) = Len(devs)

\* C20: the bulk poll returns an entry for every addressed device of the
\* index, and the entry and the status of each device are those its own fetch
\* gives, whatever the fetches of the other devices did
C20_OwnFetchOnly ==
    call.op = "all" =>
        /\ DOMAIN result = DOMAIN GetAllDeviceIps(index)
        /\ \A id \in DOMAIN GetAllDeviceIps(index) :
              /\ result[id] = Value(call.fetches[id])
              /\ status[id].status = IF StateTruthy(Value(call.fetches[id]))
                                     THEN "online" ELSE "offline"

\* C21: a state query for a device of the index that does not answer is
\* answered 200 'success' with a snapshot made of the saved metadata: on is
\* false, the colours and the address are the saved ones, the status is offline
C21_OfflineSnapshot ==
    (call.op = "state" /\ call.id \in DOMAIN index /\ result = None)
        => LET r == StateRoute(call.id, result, index, status)
           IN /\ r.code = 200 /\ r.status = "success" /\ r.minimal
              /\ ~r.on
              /\ r.device_current_color = index[call.id].device_current_color
              /\ r.device_segment_colors = index[call.id].device_segment_colors
              /\ r.device_ip = index[call.id].device_ip
              /\ r.device_status = "offline"

C21_Witness ==
    /\ call.op = "state" /\ call.id = 1 /\ result = None
    /\ call.fetches = (1 :> "none")
    /\ status[1] = [status |-> "offline", last_seen |-> 1]
    /\ StateRoute(1, result, index, status).device_status = "offline"
    /\ StateRoute(1, result, index, status).device_segment_colors = <<C3dd1db, Ca52222>>

\* C22: a colour command with r, g, b and w in 0..255 for a device of the
\* index that has an address is relayed to the device as a state update and
\* answered with success
C22_ColorRelayed ==
    (call.op = "color" /\ InRange(call.color) /\ GetDeviceIp(index, call.id) # NoIp)
        => /\ Len(Posts) = 1 /\ "seg" \in Posts[1].keys
           /\ ColorRoute(call.color, result) = 200

\* C23: in one call of set_device_power the segment update comes after the
\* power command, which was sent first and was answered; when on is false or
\* the power command failed there is no update and no state fetch; and a call
\* sends at most one update
C23_UpdateAfterPower ==
    call.op = "power" =>
        /\ Len(Updates) <= 1
        /\ Updates # << >> =>
              /\ call.on /\ call.power = "ok"
              /\ sent[1] = PowerCommand(TRUE)
              /\ sent[Len(sent)] = Updates[1] /\ Len(sent) > 1
        /\ (~call.on \/ call.power # "ok") =>
              /\ Updates = << >>
              /\ \A i \in 1..Len(sent) : sent[i] # GetState

C23_Witness ==
    /\ call.op = "power" /\ call.on /\ call.power = "ok"
    /\ Len(sent) = 3
    /\ sent[1] = PowerCommand(TRUE) /\ sent[2] = GetState /\ sent[3] = Updates[1]
    /\ Len(sent[3].seg) = 3

\* C24: with no explicit mapping saved, whatever LED count the device reports
\* (one below the number of saved colours included), each index i below the
\* number of saved segment colours gets the range [i, i+1) in the i-th saved
\* colour
C24_SavedColoursPerIndex ==
    (Fetches /\ call.reply.fetch = "ok" /\ Saved.device_segment_mapping = << >>)
        => \A i \in 1..Len(Saved.device_segment_colors) :
              /\ Len(call.seg_mapping) >= i
              /\ call.seg_mapping[i] = Entry(Saved.device_segment_colors[i], i - 1, i)

\* an entry of a mapping is valid when its colour parses, its start and stop
\* parse as integers, and start < stop
ValidEntry(e) ==
    /\ Rgb[e.color] # << >>
    /\ e.start.k \in {"int", "str"} /\ IntOf(e.start).ok
    /\ e.stop.k \in {"int", "str"} /\ IntOf(e.stop).ok
    /\ IntOf(e.start).v < IntOf(e.stop).v
\* the valid entries of a mapping as ranges, in the mapping's order
ValidRanges(mapping) ==
    LET valid == SelectSeq(mapping, ValidEntry)
    IN [i \in 1..Len(valid) |->
           [start |-> IntOf(valid[i].start).v, stop |-> IntOf(valid[i].stop).v,
            col |-> <<Rgb[valid[i].color]>>]]
\* the calls that reconcile a device with an explicit mapping
ExplicitMapping ==
    /\ Fetches /\ (call.op = "power" => call.reply.fetch # "raise")
    /\ Saved.device_segment_mapping # << >>

WellFormedRange(r) ==
    /\ r.start < r.stop
    /\ Len(r.col) = 1 /\ Len(r.col[1]) = 3
    /\ \A ch \in 1..3 : r.col[1][ch] \in 0..255

\* C26: every range of every segment payload sent to a device has integer
\* start < stop and a colour of three channels each in 0..255 (an entry whose
\* colour is not a hex string being dropped rather than sent)
C26_RangesWellFormed ==
    \A u \in 1..Len(Updates) : \A i \in 1..Len(Updates[u].seg) :
        WellFormedRange(Updates[u].seg[i])

\* what holds of a request at every moment: at most max_retries attempts,
\* every attempt but the last ended in a timeout or a connection error, the
\* waits grow linearly and stand between attempts only, and the call returns
\* the first response, or None on a fatal error or after the last attempt
RetryDiscipline ==
    LET n == Len(req.outcomes)
    IN /\ n <= max_retries
       /\ \A i \in 1..(n - 1) : req.outcomes[i] \in Retried
       /\ \A i \in 1..Len(req.sleeps) : req.sleeps[i] = i
       /\ req.pc = "attempt" => Len(req.sleeps) = n /\ req.attempt = n
       /\ req.pc = "sleep" => Len(req.sleeps) = n - 1 /\ req.outcomes[n] \in Retried
       /\ req.pc = "returned" =>
             /\ n >= 1 /\ Len(req.sleeps) = n - 1
             /\ req.outcomes[n] = "json" => req.result = "dict"
             /\ req.outcomes[n] = "text" => req.result = "wrapped"
             /\ req.outcomes[n] \in Fatal => req.result = "None"
             /\ req.outcomes[n] \in Retried => n = max_retries /\ req.result = "None"
       /\ req.pc # "returned" => req.result = "pending"

\* C27: a request made through _make_request returns after at most
\* max_retries attempts: at the first response, at once on an HTTP error or
\* an unexpected error, and otherwise after a timeout or a connection error it
\* waits and tries again, without waiting after the last attempt
C27_RetriesTerminate ==
    /\ []RetryDiscipline
    /\ (req.pc # "idle") ~> (req.pc = "returned")

C27_Witness ==
    /\ req.pc = "returned"
    /\ req.outcomes = <<"timeout", "connection", "timeout">>
    /\ req.sleeps = <<1, 2>>
    /\ req.result = "None"

\* C28: a reader of the index that runs beside load_devices sees one index
\* throughout, the one from before the reload or the one built from the
\* document, never parts of both
C28_ReaderSeesOneIndex ==
    \A i, j \in DOMAIN reader.views : reader.views[i] = reader.views[j]

\* a device keeps its status and its last_seen over a step
KeepsStatus(id) ==
    /\ status[id].status # "absent" => status'[id].status # "absent"
    /\ status[id].last_seen # Never => status'[id].last_seen # Never

\* C29: a device that has been marked online or offline keeps a status while
\* it stays in the inventory: no step, a reload of the index included, returns
\* it to the state without status or discards its last_seen
C29_StatusSurvivesReload ==
    [][\A id \in DOMAIN index \cap DOMAIN index' : KeepsStatus(id)]_vars

\* the document holds what the request created: the device, the group with its
\* default device, or the zone with its default device
Holds(h, request) ==
    IF request.kind \in {"device", "group"}
    THEN \E i \in 1..Len(DocDevices(h)) : DocDevices(h)[i].device_name = request.name
    ELSE \E z \in 1..Len(h.zones) :
            h.zones[z].groups[1].locations # << >>
            /\ h.zones[z].groups[1].locations[1].device_id[1].device_name = request.name

\* C30: when two creation requests run side by side and both are answered
\* with success, the persisted document holds what both created
C30_BothPersisted ==
    (\A r \in Handlers : handlers[r].code = 201)
        => \A r \in Handlers : Holds(hierarchy, handlers[r])

====
